---- MODULE Spec2Model ----
(***************************************************************************)
(* The dispatch control plane of the mini-lambda orchestrator: the worker  *)
(* registry (registry.rs), the bounded pending queue with its one-shot     *)
(* rendezvous channels (queue.rs), and the /register_worker,               *)
(* /unregister_worker, /request_worker (handlers.rs) and /heartbeat        *)
(* (heartbeat.rs) handlers.  The registry and the queue are each behind    *)
(* their own tokio Mutex, so every method of either is one atomic step and *)
(* a handler is a sequence of such steps that other handlers interleave.   *)
(***************************************************************************)
EXTENDS Integers, Sequences, FiniteSets, TLC

\* ---------------------------------------------------------------- bounds
\* worker ids are 1..MaxWorkers (Uuid is totally ordered; so are these)
MaxWorkers == 1
\* credits carried by a registration or a heartbeat range over 0..MaxCredits
MaxCredits == 2
\* seq carried by a heartbeat ranges over 1..MaxSeq (a worker's first
\* heartbeat carries 1)
MaxSeq == 2
\* number of /request_worker calls in one behaviour, at most
NumRequests == 3
\* number of /request_worker calls that arrive beside NumHeartbeats heartbeats
WatchedRequests == 2
\* number of /heartbeat calls in one behaviour
NumHeartbeats == 2
\* PendingQueue::new(max_size) is called with a capacity in 1..MaxQueueSize
MaxQueueSize == 3

\* SpecPick: registries of up to MaxPickWorkers records
MaxPickWorkers == 3
\* SpecFleet: worker ids are 1..MaxFleetWorkers, and so many /request_worker
\* and /heartbeat calls arrive
MaxFleetWorkers == 2
FleetRequests == 2
FleetHeartbeats == 1
\* FairSpec and SpecDrain: number of /heartbeat calls in one behaviour
FairHeartbeats == 1
\* the worker process: number of /submit_wasm and /submit_hash calls
NumSubmissions == 3
\* heartbeat intervals the orchestrator's clock runs for
MaxTicks == 5
\* /request_worker and /heartbeat calls that arrive while the clock runs
LiveRequests == 1
LiveHeartbeats == 2
\* SpecLocks: number of handlers of the orchestrator that run side by side
NumTasks == 3
\* the worker process: number of heartbeats its loop sends
MaxBeats == 3
\* module binaries are the one-byte sequences <<0>> .. <<MaxModules>> and the
\* empty one
MaxModules == 3
\* ModuleCache::new_with_capacity(cap) is called with cap in 1..MaxCacheCap
MaxCacheCap == 2
\* SpecCache: number of get and put calls in one behaviour, and of distinct
\* Arc allocations put
MaxUses == 5
MaxArcs == 2
\* SpecClient: number of runs of the client program
NumClients == 3
\* SpecClient: number of distinct wasm modules the clients hold
MaxClientModules == 2

WorkerIds == 1..MaxWorkers
FleetIds == 1..MaxFleetWorkers
\* the slots of the /submit_hash and /submit_wasm handlers: the arrivals of
\* SpecWorker, or two for each client
Submissions ==
    1..(IF NumSubmissions > 2 * NumClients THEN NumSubmissions ELSE 2 * NumClients)
Clients == 1..NumClients
Requests == 1..NumRequests
Heartbeats == 1..NumHeartbeats
JobIds == 1..NumRequests
\* the endpoint "http://<peer-ip>:<port>" of the worker process that is given
\* this id: every worker listens at an address of its own
PeerEndpoint(id) == <<"http", id>>
Endpoints == {PeerEndpoint(id) : id \in WorkerIds}
NoEndpoint == <<>>

\* Option<T>: None is <<>>, Some(x) is <<x>>
None == <<>>
Some(x) == <<x>>

\* OrchestratorError -> HTTP status
NoWorkers == 503
WorkerNotFound == 404
QueueFull == 429
Internal == 500
RequestTimeout == 408
\* StatusCode::CREATED / StatusCode::OK
CREATED == 201
OK == 200

VARIABLES
    registry,   \* WorkerRegistry.inner: worker id -> WorkerInfo
    usedIds,    \* every Uuid register has returned so far
    queue,      \* PendingQueue.inner: VecDeque<Job>, front first
    max_size,   \* PendingQueue.max_size
    chan,       \* the oneshot channel of each job: value, tx_alive, rx_alive
    nextJobId,  \* number of jobs built so far (ids are numbered as they are built)
    req,        \* the /request_worker handlers: position and locals
    hb,         \* the /heartbeat handlers: position and locals
    \* observers: what happened, written by no handler and read by none
    drains,     \* per job: how many times dequeue returned it
    handed,     \* per job: how many sends on its responder returned Ok
    overlap,    \* whether a worker's heartbeat may arrive while an earlier
                \* one of the same worker is still being handled
    watch,      \* which of the two observers below this behaviour keeps
    budget,     \* per worker: credits of the heartbeat applied last, less the
                \* dispatches of that worker since; None before a heartbeat
    applied,    \* per worker: seq of the last two heartbeats whose credits
                \* were written to its record
    picked,     \* what the pick_and_decrement call of SpecPick returned last
    tally,      \* per heartbeat handler: the queued waiters whose receiver
                \* was there when its credits were written; per worker: the
                \* credits announced so far (kept when watch = "solo")
    \* the workers' side of register_worker / unregister_worker
    fleet,      \* the worker ids of the processes that take part
    calls,      \* how many /request_worker and /heartbeat calls arrive
    removed,    \* the ids an unregister call has been made for since register
                \* returned them
    reply,      \* the last response of register_worker / unregister_worker
                \* (kept when watch = "members")
    now,        \* SystemTime::now() of the orchestrator, in heartbeat intervals
    heard,      \* per worker: the time its record was created or a heartbeat
                \* of it was applied last (kept when watch = "live")
    \* the two tokio Mutexes of the orchestrator, taken one method at a time
    registry_lock, \* WorkerRegistry.inner: the task holding the guard, 0 if free
    queue_lock, \* PendingQueue.inner: the task holding the guard, 0 if free
    task,       \* the handlers of SpecLocks, of any of the five routes:
                \* the method each is in or is waiting to enter, and locals
    \* the worker's heartbeat loop at shutdown
    shutdown,   \* the oneshot start_heartbeat_loop returns the sender of:
                \* "open", or "signalled" once the sender was used or dropped
    posted,     \* the posts of the loop answered so far, each with its seq
                \* and whether it succeeded (kept when watch = "beat")
    \* one worker process
    num_jobs,   \* the AtomicUsize the tickets count in
    tickets,    \* the JobTickets alive, each named by who acquired it
    cache_lock, \* the module cache Mutex: the submission holding it, 0 if free
    sub,        \* the /submit_wasm and /submit_hash handlers: position, outcome
    worker_seq, \* the AtomicUsize seq of the heartbeat loop
    beat,       \* the heartbeat loop: position, new_seq, the payload built last
    module_cache, \* ModuleCache.in_memory_cache: capacity and entries, the
                \* most recently used first
    \* observers of the module cache
    uses,       \* number of get and put calls made so far
    stamp,      \* per key: the number of the last put of it, or get that
                \* found it; 0 before any
    latest,     \* per key: the Arc put for it last
    got,        \* the key and the result of the last get
    client      \* the runs of the client program: position, module bytes,
                \* requests sent, answers

prog == <<registry, usedIds, queue, max_size, chan, nextJobId, req, hb>>
obs == <<drains, handed, overlap, watch, budget, applied, picked, tally>>
hbl == <<shutdown, posted>>
lk == <<registry_lock, queue_lock, task>>
life == <<fleet, calls, removed, reply, now, heard, hbl, lk>>
mc == <<module_cache, uses, stamp, latest, got, client>>
wrk == <<num_jobs, tickets, cache_lock, sub, worker_seq, beat, mc>>
vars == <<prog, obs, life, wrk>>

\* ------------------------------------------------------------- registry.rs

\* a WorkerInfo built with no credits, whatever was reported
WorkerInfoNoCredits(endpoint, id, credits) ==
    [endpoint |-> endpoint, id |-> id, credits |-> 0, seq |-> 0, last_seen |-> now]

\* WorkerInfo as register builds it: seq 0, last_seen the time of the call
WorkerInfo(endpoint, id, credits) ==
    [endpoint |-> endpoint, id |-> id, credits |-> credits, seq |-> 0, last_seen |-> now]

\* WorkerRegistry::register, with the fresh Uuid as a parameter
register(m, id, endpoint, credits) ==
    [ret |-> id,
     m |-> [w \in DOMAIN m \cup {id} |->
              IF w = id THEN WorkerInfo(endpoint, id, credits) ELSE m[w]]]

\* unregister that reports the record and leaves it in the map
unregisterKeeps(m, worker_id) == [ret |-> worker_id \in DOMAIN m, m |-> m]

\* WorkerRegistry::unregister
unregister(m, worker_id) ==
    [ret |-> worker_id \in DOMAIN m,
     m |-> [w \in DOMAIN m \ {worker_id} |-> m[w]]]

\* WorkerRegistry::len
len(m) == Cardinality(DOMAIN m)

\* update_credits that makes a record for an id it does not find
update_creditsInserts(m, worker_id, credits) ==
    IF worker_id \in DOMAIN m
    THEN [ret |-> TRUE, m |-> [m EXCEPT ![worker_id].credits = credits]]
    ELSE [ret |-> FALSE,
          m |-> [w \in DOMAIN m \cup {worker_id} |->
                   IF w = worker_id THEN WorkerInfo(NoEndpoint, worker_id, credits)
                   ELSE m[w]]]

\* WorkerRegistry::update_credits
update_credits(m, worker_id, credits) ==
    IF worker_id \in DOMAIN m
    THEN [ret |-> TRUE, m |-> [m EXCEPT ![worker_id].credits = credits]]
    ELSE [ret |-> FALSE, m |-> m]

\* get_worker_info returning the record of the lowest id instead
get_worker_infoLowest(m, worker_id) ==
    IF worker_id \in DOMAIN m
    THEN Some(m[CHOOSE w \in DOMAIN m : \A v \in DOMAIN m : w <= v])
    ELSE None

\* WorkerRegistry::get_worker_info
get_worker_info(m, worker_id) ==
    IF worker_id \in DOMAIN m THEN Some(m[worker_id]) ELSE None

\* the orders in which HashMap::iter may visit the records
IterOrders(m) ==
    {o \in [1..Cardinality(DOMAIN m) -> DOMAIN m] :
        \A i, j \in DOMAIN o : i # j => o[i] # o[j]}

\* the selection loop keeping the record with the fewest credits
RECURSIVE PickLoopLeast(_, _, _, _)
PickLoopLeast(m, order, chosen_id, greatest) ==
    IF order = <<>> THEN chosen_id
    ELSE LET id == Head(order)
             info == m[id]
         IN IF info.credits > 0 /\ (greatest = None \/ info.credits < greatest[1])
            THEN PickLoopLeast(m, Tail(order), Some(id), Some(info.credits))
            ELSE PickLoopLeast(m, Tail(order), chosen_id, greatest)

\* the selection loop without the test `info.credits > 0`
RECURSIVE PickLoopAnyCredits(_, _, _, _)
PickLoopAnyCredits(m, order, chosen_id, greatest) ==
    IF order = <<>> THEN chosen_id
    ELSE LET id == Head(order)
             info == m[id]
         IN IF greatest = None \/ info.credits > greatest[1]
            THEN PickLoopAnyCredits(m, Tail(order), Some(id), Some(info.credits))
            ELSE PickLoopAnyCredits(m, Tail(order), chosen_id, greatest)

\* the selection loop with the test `info.credits >= 0`
RECURSIVE PickLoopZeroOk(_, _, _, _)
PickLoopZeroOk(m, order, chosen_id, greatest) ==
    IF order = <<>> THEN chosen_id
    ELSE LET id == Head(order)
             info == m[id]
         IN IF info.credits >= 0 /\ (greatest = None \/ info.credits > greatest[1])
            THEN PickLoopZeroOk(m, Tail(order), Some(id), Some(info.credits))
            ELSE PickLoopZeroOk(m, Tail(order), chosen_id, greatest)

\* the selection loop of pick_and_decrement over the records in iteration
\* order: returns chosen_id
RECURSIVE PickLoop(_, _, _, _)
PickLoop(m, order, chosen_id, greatest) ==
    IF order = <<>> THEN chosen_id
    ELSE LET id == Head(order)
             info == m[id]
         IN IF info.credits > 0 /\ (greatest = None \/ info.credits > greatest[1])
            THEN PickLoop(m, Tail(order), Some(id), Some(info.credits))
            ELSE PickLoop(m, Tail(order), chosen_id, greatest)

\* WorkerRegistry::pick_and_decrement, iterating the map in `order`
pick_and_decrement(m, order) ==
    IF DOMAIN m = {} THEN [ret |-> None, m |-> m]
    ELSE LET chosen_id == PickLoop(m, order, None, None)
         IN IF chosen_id = None THEN [ret |-> None, m |-> m]
            ELSE LET id == chosen_id[1]
                     endpoint == m[id].endpoint
                 IN [ret |-> Some(<<id, endpoint>>),
                     m |-> [m EXCEPT ![id].credits = @ - 1]]

\* ---------------------------------------------------------------- queue.rs

\* Job: the responder is the sending half of the job's own channel
Job(job_id) == [job_id |-> job_id, responder |-> job_id]

\* enqueue that pushes before it tests the length
enqueuePushFirst(q, cap, job) ==
    IF Len(q) < cap
    THEN [ret |-> TRUE, q |-> Append(q, job)]
    ELSE [ret |-> FALSE, q |-> Append(q, job)]

\* enqueue with the test `q.len() <= self.max_size`
enqueueOffByOne(q, cap, job) ==
    IF Len(q) <= cap
    THEN [ret |-> TRUE, q |-> Append(q, job)]
    ELSE [ret |-> FALSE, q |-> q]

\* PendingQueue::enqueue
enqueue(q, cap, job) ==
    IF Len(q) < cap
    THEN [ret |-> TRUE, q |-> Append(q, job)]
    ELSE [ret |-> FALSE, q |-> q]

\* dequeue returning the front job without removing it
dequeueFrontKept(q) ==
    IF q = <<>> THEN [ret |-> None, q |-> q]
    ELSE [ret |-> Some(Head(q)), q |-> q]

\* dequeue with pop_back
dequeueBack(q) ==
    IF q = <<>> THEN [ret |-> None, q |-> q]
    ELSE [ret |-> Some(q[Len(q)]), q |-> SubSeq(q, 1, Len(q) - 1)]

\* PendingQueue::dequeue
dequeue(q) ==
    IF q = <<>> THEN [ret |-> None, q |-> q]
    ELSE [ret |-> Some(Head(q)), q |-> Tail(q)]

\* position of the first job with this id, 0 if there is none
Position(q, job_id) ==
    IF \E i \in 1..Len(q) : q[i].job_id = job_id
    THEN CHOOSE i \in 1..Len(q) :
            /\ q[i].job_id = job_id
            /\ \A k \in 1..(i - 1) : q[k].job_id # job_id
    ELSE 0

\* remove_job_by_id that finds nothing
remove_job_by_idNone(q, job_id) == [ret |-> None, q |-> q]

\* PendingQueue::remove_job_by_id
remove_job_by_id(q, job_id) ==
    LET pos == Position(q, job_id)
    IN IF pos # 0
       THEN [ret |-> Some(q[pos]),
             q |-> SubSeq(q, 1, pos - 1) \o SubSeq(q, pos + 1, Len(q))]
       ELSE [ret |-> None, q |-> q]

\* PendingQueue::snapshot
snapshot(q) == [i \in 1..Len(q) |-> q[i].job_id]

\* ------------------------------------------------ tokio::sync::oneshot

NoChannel == [value |-> None, tx_alive |-> FALSE, rx_alive |-> FALSE]
\* oneshot::channel()
NewChannel == [value |-> None, tx_alive |-> TRUE, rx_alive |-> TRUE]

\* a send that consumes the sender and loses the value
sendLosesValue(c, v) ==
    IF c.rx_alive
    THEN [ret |-> TRUE, c |-> [c EXCEPT !.tx_alive = FALSE]]
    ELSE [ret |-> FALSE, c |-> [c EXCEPT !.tx_alive = FALSE]]

\* Sender::send consumes the sender; Err when the receiver is gone
send(c, v) ==
    IF c.rx_alive
    THEN [ret |-> TRUE, c |-> [c EXCEPT !.value = Some(v), !.tx_alive = FALSE]]
    ELSE [ret |-> FALSE, c |-> [c EXCEPT !.tx_alive = FALSE]]

\* dropping the Sender without sending
drop_tx(c) == [c EXCEPT !.tx_alive = FALSE]

\* dropping the Receiver
drop_rx(c) == [c EXCEPT !.rx_alive = FALSE]

\* polling the Receiver: "pending", or ready with a value or with an error
poll(c) ==
    IF c.value # None THEN [ready |-> TRUE, ok |-> TRUE, value |-> c.value]
    ELSE IF ~c.tx_alive THEN [ready |-> TRUE, ok |-> FALSE, value |-> None]
    ELSE [ready |-> FALSE, ok |-> FALSE, value |-> None]

\* usize::saturating_sub
saturating_sub(a, b) == IF a >= b THEN a - b ELSE 0


\* --------------------------------------------------------- module_cache.rs

\* proto lib.rs: hex::encode(Sha256::digest(module_bytes)), a string of 64
\* hex digits that names the bytes (no two binaries of the model collide)
hash_wasm_module(module_bytes) == <<"sha256", module_bytes>>

\* the module binaries a client may hold
Binaries == {<<>>} \cup {<<b>> : b \in 0..MaxModules}
\* the keys of SpecCache
Keys == {hash_wasm_module(<<b>>) : b \in 1..MaxModules}
Arcs == 1..MaxArcs

\* LruCache::new(cap)
LruCache(cap) == [cap |-> cap, entries |-> <<>>]

\* the place of key in the recency list, 0 if it is not cached
Find(c, key) ==
    IF \E i \in 1..Len(c.entries) : c.entries[i].key = key
    THEN CHOOSE i \in 1..Len(c.entries) : c.entries[i].key = key
    ELSE 0

\* the recency list without its place i
Detach(entries, i) ==
    [k \in 1..(Len(entries) - 1) |-> IF k < i THEN entries[k] ELSE entries[k + 1]]

\* a get that finds the key and leaves the recency list as it is
getKeepsOrder(c, key) ==
    LET i == Find(c, key)
    IN IF i = 0 THEN [ret |-> None, c |-> c]
       ELSE [ret |-> Some(c.entries[i].value), c |-> c]

\* ModuleCache::get, LruCache::get: a hit moves the entry to the front of the
\* recency list and returns a clone of its Arc
get(c, key) ==
    LET i == Find(c, key)
    IN IF i = 0 THEN [ret |-> None, c |-> c]
       ELSE [ret |-> Some(c.entries[i].value),
             c |-> [c EXCEPT !.entries = <<c.entries[i]>> \o Detach(c.entries, i)]]

\* a put that evicts only when the list is longer than the capacity
putLate(c, key, module) ==
    LET i == Find(c, key)
        entry == [key |-> key, value |-> module]
    IN IF i # 0
       THEN [c EXCEPT !.entries = <<entry>> \o Detach(c.entries, i)]
       ELSE IF Len(c.entries) > c.cap
       THEN [c EXCEPT !.entries = <<entry>> \o Detach(c.entries, Len(c.entries))]
       ELSE [c EXCEPT !.entries = <<entry>> \o c.entries]

\* a put that keeps the Arc already stored for the key
putKeepsOld(c, key, module) ==
    LET i == Find(c, key)
        entry == [key |-> key, value |-> module]
    IN IF i # 0
       THEN [c EXCEPT !.entries = <<c.entries[i]>> \o Detach(c.entries, i)]
       ELSE IF Len(c.entries) >= c.cap
       THEN [c EXCEPT !.entries = <<entry>> \o Detach(c.entries, Len(c.entries))]
       ELSE [c EXCEPT !.entries = <<entry>> \o c.entries]

\* ModuleCache::put, LruCache::put: a cached key gets the new Arc and moves to
\* the front; a new key goes to the front, after the entry at the back was
\* removed if the cache was full
put(c, key, module) ==
    LET i == Find(c, key)
        entry == [key |-> key, value |-> module]
    IN IF i # 0
       THEN [c EXCEPT !.entries = <<entry>> \o Detach(c.entries, i)]
       ELSE IF Len(c.entries) >= c.cap
       THEN [c EXCEPT !.entries = <<entry>> \o Detach(c.entries, Len(c.entries))]
       ELSE [c EXCEPT !.entries = <<entry>> \o c.entries]

\* ------------------------------------------------------------------- Init

NoTally == [live |-> [h \in Heartbeats |-> 0], received |-> [id \in WorkerIds |-> 0]]
IdleReq == [pc |-> "idle", job_id |-> 0, status |-> 0, worker_endpoint |-> NoEndpoint]
IdleHb == [pc |-> "idle", worker_id |-> 0, credits |-> 0,
           worker_endpoint |-> NoEndpoint, assigned |-> 0, job |-> None, status |-> 0]

\* a /heartbeat handler that has returned: its locals are gone, its response stays
HbDone(status) == [IdleHb EXCEPT !.pc = "done", !.status = status]

\* the worker process as main leaves it: no job, no ticket, no heartbeat yet
IdleSub == [pc |-> "idle", kind |-> "none", data |-> <<>>, exec |-> "none",
            status |-> "none"]
IdleClient == [pc |-> "idle", wasm_bytes |-> <<>>, sent |-> <<>>, hash_status |-> 0,
               result |-> "none", after |-> {}]
IdleBeat == [pc |-> "tick", new_seq |-> 0, payload |-> None]
Tasks == 1..NumTasks
IdleTask == [kind |-> "none", pc |-> "idle", worker_id |-> 0, credits |-> 0,
             worker_endpoint |-> NoEndpoint, assigned |-> 0, job |-> None,
             job_id |-> 0, status |-> 0, acq |-> <<>>, view |-> None]
NoTicket == [acquired |-> 0, dropped |-> 0]

InitWorker(caps) ==
    /\ num_jobs = 0
    /\ tickets = [j \in Submissions |-> NoTicket]
    /\ cache_lock = 0
    /\ sub = [j \in Submissions |-> IdleSub]
    /\ worker_seq = 0
    /\ beat = IdleBeat
    /\ module_cache \in {LruCache(cap) : cap \in caps}
    /\ uses = 0
    /\ stamp = [k \in Keys |-> 0]
    /\ latest = [k \in Keys |-> None]
    /\ got = None
    /\ client = [c \in Clients |-> IdleClient]

\* main: WorkerRegistry::new(), PendingQueue::new(max_size), no request yet;
\* the workers of ids f take part, nr /request_worker and nh /heartbeat calls
\* arrive
InitOrchestrator(w, sizes, ov, f, nr, nh) ==
    /\ registry = <<>>
    /\ usedIds = {}
    /\ queue = <<>>
    /\ max_size \in sizes
    /\ chan = [j \in JobIds |-> NoChannel]
    /\ nextJobId = 0
    /\ req = [r \in Requests |-> IdleReq]
    /\ hb = [h \in Heartbeats |-> IdleHb]
    /\ drains = [j \in JobIds |-> 0]
    /\ handed = [j \in JobIds |-> 0]
    /\ overlap = ov
    /\ watch = w
    /\ budget = [id \in WorkerIds |-> None]
    /\ applied = [id \in WorkerIds |-> <<>>]
    /\ picked = None
    /\ tally = NoTally
    /\ fleet = f
    /\ calls = [requests |-> nr, heartbeats |-> nh]
    /\ removed = {}
    /\ reply = None
    /\ now = 0
    /\ heard = [id \in WorkerIds |-> 0]
    /\ shutdown = "open"
    /\ posted = <<>>
    /\ registry_lock = 0
    /\ queue_lock = 0
    /\ task = [t \in Tasks |-> IdleTask]

\* the orchestrator beside one worker process whose cache holds one module
InitFleet(w, sizes, ov, f, nr, nh) ==
    /\ InitOrchestrator(w, sizes, ov, f, nr, nh)
    /\ InitWorker({1})

InitWatching(w, sizes, ov) ==
    InitFleet(w, sizes, ov, WorkerIds, WatchedRequests, NumHeartbeats)

\* a queue of any size, every worker sending its next heartbeat only after
\* the one before was answered (as the worker's heartbeat loop does)
Init == InitWatching("none", 1..MaxQueueSize, FALSE)

\* ------------------------------------------------------------- observers

\* one more dispatch of worker id against the heartbeat applied last
Charge(b, id) ==
    IF watch \in {"budget", "solo"} /\ b[id] # None
    THEN [b EXCEPT ![id] = Some(IF @[1] > 0 THEN @[1] - 1 ELSE -1)]
    ELSE b

\* a heartbeat's credits are written to the record of worker id
Announce(b, id, credits) ==
    IF watch \in {"budget", "solo"} THEN [b EXCEPT ![id] = Some(credits)] ELSE b

\* the queued jobs whose receiver is there to take an endpoint
LiveWaiters(q, c) == {i \in 1..Len(q) : c[q[i].responder].rx_alive}

\* credits are announced for worker id, by register_worker or by a heartbeat
Received(t, id, credits) ==
    IF watch = "solo" THEN [t EXCEPT !.received[id] = @ + credits] ELSE t

\* heartbeat handler h has written its credits and sets out to drain
Started(t, h, id, credits) ==
    IF watch = "solo"
    THEN [Received(t, id, credits) EXCEPT !.live[h] = Cardinality(LiveWaiters(queue, chan))]
    ELSE t

\* the seq of the heartbeat just applied joins the last one before it
Applied(a, id, seq) ==
    IF watch \in {"seq", "live"}
    THEN [a EXCEPT ![id] = IF Len(@) = 2 THEN <<@[2], seq>> ELSE Append(@, seq)]
    ELSE a

\* worker id is heard of: its record is created or a heartbeat of it applied
Heard(hd, id) ==
    IF watch = "live" THEN [hd EXCEPT ![id] = now] ELSE hd

\* the response of register_worker / unregister_worker just sent
Replied(op, worker_id, status) ==
    IF watch = "members"
    THEN Some([op |-> op, worker_id |-> worker_id, status |-> status])
    ELSE reply

\* ------------------------------------------------- handlers.rs: workers

\* register_worker: the endpoint is built from the peer ip and the reported
\* port, the id is a fresh Uuid; always 201
RegisterWorker(id, endpoint, initial_credits) ==
    /\ id \notin usedIds
    /\ LET res == register(registry, id, endpoint, initial_credits)
       IN /\ registry' = res.m
          /\ reply' = Replied("register", res.ret, CREATED)
    /\ usedIds' = usedIds \cup {id}
    /\ tally' = Received(tally, id, initial_credits)
    /\ heard' = Heard(heard, id)
    /\ UNCHANGED <<queue, max_size, chan, nextJobId, req, hb, drains, handed, overlap,
                   watch, budget, applied, picked, fleet, calls, removed, now, hbl, lk, wrk>>

\* unregister_worker: 200 when the id was present, WorkerNotFound otherwise
UnregisterWorker(worker_id) ==
    /\ LET res == unregister(registry, worker_id)
       IN /\ registry' = res.m
          /\ reply' = Replied("unregister", worker_id,
                              IF res.ret THEN OK ELSE WorkerNotFound)
    /\ removed' = IF worker_id \in usedIds THEN removed \cup {worker_id} ELSE removed
    /\ UNCHANGED <<usedIds, queue, max_size, chan, nextJobId, req, hb, obs, fleet, calls,
                   now, heard, hbl, lk, wrk>>

\* ------------------------------------------ handlers.rs: request_worker

\* calls are numbered in the order they arrive
ReqArrives(r) ==
    /\ r <= calls.requests
    /\ req[r].pc = "idle" /\ \A k \in 1..(r - 1) : req[k].pc # "idle"

\* the job_id of a call answered by a direct pick: a fresh Uuid that never
\* enters the queue
DirectJobId(r) == NumRequests + r

\* request_worker without the test of registry.len()
ReqLenUnchecked(r) ==
    /\ ReqArrives(r)
    /\ req' = [req EXCEPT ![r] = [@ EXCEPT !.pc = "pick"]]
    /\ UNCHANGED <<registry, usedIds, queue, max_size, chan, nextJobId, hb, obs, life, wrk>>

\* `if registry.len().await == 0 { return Err(NoWorkers) }`
ReqLen(r) ==
    /\ ReqArrives(r)
    /\ req' = [req EXCEPT ![r] =
                 IF len(registry) = 0
                 THEN [@ EXCEPT !.pc = "done", !.status = NoWorkers]
                 ELSE [@ EXCEPT !.pc = "pick"]]
    /\ UNCHANGED <<registry, usedIds, queue, max_size, chan, nextJobId, hb, obs, life, wrk>>

\* a pick whose decrement is lost: the endpoint is returned and the record
\* keeps its credits
ReqPickKeepsCredits(r) ==
    /\ req[r].pc = "pick"
    /\ \E order \in IterOrders(registry) :
         LET res == pick_and_decrement(registry, order)
         IN /\ registry' = registry
            /\ IF res.ret # None
               THEN /\ req' = [req EXCEPT ![r] =
                                 [@ EXCEPT !.pc = "done", !.status = CREATED,
                                           !.job_id = DirectJobId(r),
                                           !.worker_endpoint = res.ret[1][2]]]
                    /\ budget' = Charge(budget, res.ret[1][1])
               ELSE /\ req' = [req EXCEPT ![r] = [@ EXCEPT !.pc = "enqueue"]]
                    /\ UNCHANGED budget
    /\ UNCHANGED <<usedIds, queue, max_size, chan, nextJobId, hb,
                   drains, handed, overlap, watch, applied, picked, tally, life, wrk>>

\* `registry.pick_and_decrement().await`: Some -> 201 with a fresh job_id,
\* None -> go on to enqueue
ReqPick(r) ==
    /\ req[r].pc = "pick"
    /\ \E order \in IterOrders(registry) :
         LET res == pick_and_decrement(registry, order)
         IN /\ registry' = res.m
            /\ IF res.ret # None
               THEN /\ req' = [req EXCEPT ![r] =
                                 [@ EXCEPT !.pc = "done", !.status = CREATED,
                                           !.job_id = DirectJobId(r),
                                           !.worker_endpoint = res.ret[1][2]]]
                    /\ budget' = Charge(budget, res.ret[1][1])
               ELSE /\ req' = [req EXCEPT ![r] = [@ EXCEPT !.pc = "enqueue"]]
                    /\ UNCHANGED budget
    /\ UNCHANGED <<usedIds, queue, max_size, chan, nextJobId, hb,
                   drains, handed, overlap, watch, applied, picked, tally, life, wrk>>

\* oneshot::channel(), Uuid::new_v4(), `pending_queue.enqueue(job).await`:
\* Err -> QueueFull (the job and both channel halves are dropped)
ReqEnqueue(r) ==
    /\ req[r].pc = "enqueue"
    /\ LET job_id == nextJobId + 1
           res == enqueue(queue, max_size, Job(job_id))
       IN /\ nextJobId' = job_id
          /\ queue' = res.q
          /\ IF res.ret
             THEN /\ chan' = [chan EXCEPT ![job_id] = NewChannel]
                  /\ req' = [req EXCEPT ![r] = [@ EXCEPT !.pc = "wait", !.job_id = job_id]]
             ELSE /\ chan' = [chan EXCEPT ![job_id] = drop_rx(drop_tx(NewChannel))]
                  /\ req' = [req EXCEPT ![r] =
                               [@ EXCEPT !.pc = "done", !.status = QueueFull,
                                         !.job_id = job_id]]
    /\ UNCHANGED <<registry, usedIds, max_size, hb, obs, life, wrk>>

\* `tokio::time::timeout(timeout, rx).await` when rx is ready: the value is
\* returned with 201, a closed channel is Internal; rx is dropped either way
ReqReceive(r) ==
    /\ req[r].pc = "wait"
    /\ LET p == poll(chan[req[r].job_id])
       IN /\ p.ready
          /\ req' = [req EXCEPT ![r] =
                       IF p.ok
                       THEN [@ EXCEPT !.pc = "done", !.status = CREATED,
                                      !.worker_endpoint = p.value[1]]
                       ELSE [@ EXCEPT !.pc = "done", !.status = Internal]]
    /\ chan' = [chan EXCEPT ![req[r].job_id] = drop_rx(@)]
    /\ UNCHANGED <<registry, usedIds, queue, max_size, nextJobId, hb, obs, life, wrk>>

\* `tokio::time::timeout(timeout, rx).await` when QUEUE_TIMEOUT_SECS have
\* elapsed: Timeout polls rx, finds it pending, and then finds the timer fired
ReqElapsed(r) ==
    /\ req[r].pc = "wait"
    /\ ~poll(chan[req[r].job_id]).ready
    /\ req' = [req EXCEPT ![r] = [@ EXCEPT !.pc = "elapsed"]]
    /\ UNCHANGED <<registry, usedIds, queue, max_size, chan, nextJobId, hb, obs, life, wrk>>

\* the await returns Err(Elapsed) and the Timeout future is dropped, rx with
\* it (a value sent since the poll is dropped unread); the handler goes on to
\* remove its job. The runtime is multi-threaded (#[tokio::main]): a drain on
\* another thread may send between the poll and the drop
ReqDropRx(r) ==
    /\ req[r].pc = "elapsed"
    /\ chan' = [chan EXCEPT ![req[r].job_id] = drop_rx(@)]
    /\ req' = [req EXCEPT ![r] = [@ EXCEPT !.pc = "remove"]]
    /\ UNCHANGED <<registry, usedIds, queue, max_size, nextJobId, hb, obs, life, wrk>>

\* `let _ = pending_queue.remove_job_by_id(job_id).await; Err(RequestTimeout)`:
\* a removed job is dropped, and its sender with it
ReqRemove(r) ==
    /\ req[r].pc = "remove"
    /\ LET res == remove_job_by_id(queue, req[r].job_id)
       IN /\ queue' = res.q
          /\ chan' = IF res.ret # None
                     THEN [chan EXCEPT ![res.ret[1].responder] = drop_tx(@)]
                     ELSE chan
    /\ req' = [req EXCEPT ![r] = [@ EXCEPT !.pc = "done", !.status = RequestTimeout]]
    /\ UNCHANGED <<registry, usedIds, max_size, nextJobId, hb, obs, life, wrk>>

\* ------------------------------- heartbeat.rs: handle_heartbeat_received

HbArrives(h) ==
    /\ h <= calls.heartbeats
    /\ hb[h].pc = "idle" /\ \A k \in 1..(h - 1) : hb[k].pc # "idle"

\* a handler that answers a heartbeat without credits before writing them
HbUpdateZeroKeeps(h, worker_id, seq, credits) ==
    /\ HbArrives(h)
    /\ overlap \/ \A k \in Heartbeats : hb[k].pc \in {"idle", "done"} \/ hb[k].worker_id # worker_id
    /\ LET res == update_credits(registry, worker_id, credits)
       IN /\ registry' = IF credits = 0 THEN registry ELSE res.m
          /\ hb' = [hb EXCEPT ![h] =
                      IF ~res.ret THEN HbDone(WorkerNotFound)
                      ELSE IF credits = 0 THEN HbDone(OK)
                      ELSE [@ EXCEPT !.pc = "get_info", !.worker_id = worker_id,
                                     !.credits = credits]]
          /\ IF res.ret
             THEN /\ budget' = Announce(budget, worker_id, credits)
                  /\ applied' = Applied(applied, worker_id, seq)
                  /\ tally' = Started(tally, h, worker_id, credits)
                  /\ heard' = Heard(heard, worker_id)
             ELSE UNCHANGED <<budget, applied, tally, heard>>
    /\ UNCHANGED <<usedIds, queue, max_size, chan, nextJobId, req,
                   drains, handed, overlap, watch, picked,
                   fleet, calls, removed, reply, now, hbl, lk, wrk>>

\* lines 23-31: the first update_credits, WorkerNotFound when the id is
\* unknown, 200 at once when the heartbeat carries no credits
HbUpdate(h, worker_id, seq, credits) ==
    /\ HbArrives(h)
    /\ overlap \/ \A k \in Heartbeats : hb[k].pc \in {"idle", "done"} \/ hb[k].worker_id # worker_id
    /\ LET res == update_credits(registry, worker_id, credits)
       IN /\ registry' = res.m
          /\ hb' = [hb EXCEPT ![h] =
                      IF ~res.ret THEN HbDone(WorkerNotFound)
                      ELSE IF credits = 0 THEN HbDone(OK)
                      ELSE [@ EXCEPT !.pc = "get_info", !.worker_id = worker_id,
                                     !.credits = credits]]
          /\ IF res.ret
             THEN /\ budget' = Announce(budget, worker_id, credits)
                  /\ applied' = Applied(applied, worker_id, seq)
                  /\ tally' = Started(tally, h, worker_id, credits)
                  /\ heard' = Heard(heard, worker_id)
             ELSE UNCHANGED <<budget, applied, tally, heard>>
    /\ UNCHANGED <<usedIds, queue, max_size, chan, nextJobId, req,
                   drains, handed, overlap, watch, picked,
                   fleet, calls, removed, reply, now, hbl, lk, wrk>>

\* lines 33-38: get_worker_info, `let mut assigned = 0`
HbGetInfo(h) ==
    /\ hb[h].pc = "get_info"
    /\ LET info == get_worker_info(registry, hb[h].worker_id)
       IN hb' = [hb EXCEPT ![h] =
                   IF info = None
                   THEN HbDone(WorkerNotFound)
                   ELSE [@ EXCEPT !.pc = "dequeue", !.assigned = 0,
                                  !.worker_endpoint = info[1].endpoint]]
    /\ UNCHANGED <<registry, usedIds, queue, max_size, chan, nextJobId, req, obs, life, wrk>>

\* lines 39-41 and 49-52: `pending_queue.dequeue().await`, leaving the loop
\* when the queue is empty
HbDequeue(h) ==
    /\ hb[h].pc = "dequeue"
    /\ LET res == dequeue(queue)
       IN /\ queue' = res.q
          /\ hb' = [hb EXCEPT ![h] =
                      IF res.ret = None THEN [@ EXCEPT !.pc = "final"]
                      ELSE [@ EXCEPT !.pc = "send", !.job = res.ret]]
          /\ drains' = IF res.ret = None THEN drains
                       ELSE [drains EXCEPT ![res.ret[1].job_id] = @ + 1]
    /\ UNCHANGED <<registry, usedIds, max_size, chan, nextJobId, req,
                   handed, overlap, watch, budget, applied, picked, tally, life, wrk>>

\* the send step counting in assigned a send whose receiver was gone
HbSendCountsGone(h) ==
    /\ hb[h].pc = "send"
    /\ LET job == hb[h].job[1]
           res == send(chan[job.responder], hb[h].worker_endpoint)
           assigned == hb[h].assigned + 1
       IN /\ chan' = [chan EXCEPT ![job.responder] = res.c]
          /\ hb' = [hb EXCEPT ![h] =
                      [@ EXCEPT !.assigned = assigned, !.job = None,
                                !.pc = IF assigned < hb[h].credits
                                       THEN "dequeue" ELSE "final"]]
          /\ handed' = IF res.ret THEN [handed EXCEPT ![job.job_id] = @ + 1] ELSE handed
          /\ budget' = IF res.ret THEN Charge(budget, hb[h].worker_id) ELSE budget
    /\ UNCHANGED <<registry, usedIds, queue, max_size, nextJobId, req,
                   drains, overlap, watch, applied, picked, tally, life, wrk>>

\* lines 43-48 and the loop test of line 39: `job.responder.send(endpoint)`,
\* counted in assigned only when the receiver is there to take it
HbSend(h) ==
    /\ hb[h].pc = "send"
    /\ LET job == hb[h].job[1]
           res == send(chan[job.responder], hb[h].worker_endpoint)
           assigned == IF res.ret THEN hb[h].assigned + 1 ELSE hb[h].assigned
       IN /\ chan' = [chan EXCEPT ![job.responder] = res.c]
          /\ hb' = [hb EXCEPT ![h] =
                      [@ EXCEPT !.assigned = assigned, !.job = None,
                                !.pc = IF assigned < hb[h].credits
                                       THEN "dequeue" ELSE "final"]]
          /\ handed' = IF res.ret THEN [handed EXCEPT ![job.job_id] = @ + 1] ELSE handed
          /\ budget' = IF res.ret THEN Charge(budget, hb[h].worker_id) ELSE budget
    /\ UNCHANGED <<registry, usedIds, queue, max_size, nextJobId, req,
                   drains, overlap, watch, applied, picked, tally, life, wrk>>

\* a drain that ends by writing the credits the heartbeat carried
HbFinalWritesCredits(h) ==
    /\ hb[h].pc = "final"
    /\ registry' = update_credits(registry, hb[h].worker_id, hb[h].credits).m
    /\ hb' = [hb EXCEPT ![h] = HbDone(OK)]
    /\ UNCHANGED <<usedIds, queue, max_size, chan, nextJobId, req, obs, life, wrk>>

\* lines 55-58: the second update_credits with what is left, then 200
HbFinal(h) ==
    /\ hb[h].pc = "final"
    /\ LET remaining_credits == saturating_sub(hb[h].credits, hb[h].assigned)
       IN registry' = update_credits(registry, hb[h].worker_id, remaining_credits).m
    /\ hb' = [hb EXCEPT ![h] = HbDone(OK)]
    /\ UNCHANGED <<usedIds, queue, max_size, chan, nextJobId, req, obs, life, wrk>>

\* ------------------------------------------------------------------- Next

Register == \E id \in fleet, c \in 0..MaxCredits : RegisterWorker(id, PeerEndpoint(id), c)
Unregister == \E w \in fleet : UnregisterWorker(w)
RequestLen == \E r \in Requests : ReqLen(r)
RequestPick == \E r \in Requests : ReqPick(r)
RequestEnqueue == \E r \in Requests : ReqEnqueue(r)
RequestReceive == \E r \in Requests : ReqReceive(r)
RequestElapsed == \E r \in Requests : ReqElapsed(r)
RequestDropRx == \E r \in Requests : ReqDropRx(r)
RequestRemove == \E r \in Requests : ReqRemove(r)
\* the seq a heartbeat carries is read by no handler, only by the observer
\* of SpecSeq: elsewhere one value stands for all
HeartbeatSeqs == IF watch \in {"seq", "live"} THEN 1..MaxSeq ELSE {MaxSeq}
HeartbeatUpdate ==
    \E h \in Heartbeats, w \in fleet, s \in HeartbeatSeqs, c \in 0..MaxCredits :
        HbUpdate(h, w, s, c)
HeartbeatGetInfo == \E h \in Heartbeats : HbGetInfo(h)
HeartbeatDequeue == \E h \in Heartbeats : HbDequeue(h)
HeartbeatSend == \E h \in Heartbeats : HbSend(h)
HeartbeatFinal == \E h \in Heartbeats : HbFinal(h)

Next ==
    \/ Register
    \/ Unregister
    \/ RequestLen
    \/ RequestPick
    \/ RequestEnqueue
    \/ RequestReceive
    \/ RequestElapsed
    \/ RequestDropRx
    \/ RequestRemove
    \/ HeartbeatUpdate
    \/ HeartbeatGetInfo
    \/ HeartbeatDequeue
    \/ HeartbeatSend
    \/ HeartbeatFinal

\* the handlers as they interleave, with neither observer of credits kept
Spec == Init /\ [][Next]_vars

\* a /heartbeat handler is under way
Draining == \E h \in Heartbeats : hb[h].pc \notin {"idle", "done"}

\* the handlers, none of which takes a step while a /heartbeat handler is
\* under way
NextSolo ==
    \/ ~Draining /\ Register
    \/ ~Draining /\ Unregister
    \/ ~Draining /\ RequestLen
    \/ ~Draining /\ RequestPick
    \/ ~Draining /\ RequestEnqueue
    \/ ~Draining /\ RequestReceive
    \/ ~Draining /\ RequestElapsed
    \/ ~Draining /\ RequestDropRx
    \/ ~Draining /\ RequestRemove
    \/ ~Draining /\ HeartbeatUpdate
    \/ HeartbeatGetInfo
    \/ HeartbeatDequeue
    \/ HeartbeatSend
    \/ HeartbeatFinal

\* every /heartbeat handler running from its first update_credits to its
\* last with no step of another handler in between, keeping the tally
SpecSolo == InitWatching("solo", 1..MaxQueueSize, FALSE) /\ [][NextSolo]_vars

\* the same handlers around a queue of two places, with heartbeats of one
\* worker that overlap (any client can post to /heartbeat)
SpecOverlap == InitWatching("none", {MaxQueueSize - 1}, TRUE) /\ [][Next]_vars

\* the same handlers around a queue of one place, every worker sending its
\* next heartbeat only after the one before was answered (as the worker's
\* heartbeat loop does), keeping the budget of each heartbeat
SpecBudget == InitWatching("budget", {1}, FALSE) /\ [][Next]_vars

\* the same handlers around a queue of one place, a heartbeat arriving only
\* after the earlier ones of its worker were answered (in any order of seq),
\* keeping the seq of the heartbeats applied
SpecSeq == InitWatching("seq", {1}, FALSE) /\ [][Next]_vars

\* the same handlers with MaxFleetWorkers workers around a queue of one
\* place, keeping the responses of register_worker and unregister_worker
SpecFleet ==
    /\ InitFleet("members", {1}, FALSE, FleetIds, FleetRequests, FleetHeartbeats)
    /\ [][Next]_vars

\* every /request_worker handler that can take a step takes it in the end:
\* the runtime polls every ready task, and the timer of
\* `tokio::time::timeout` fires after QUEUE_TIMEOUT_SECS
ReqProgress(r) ==
    ReqPick(r) \/ ReqEnqueue(r) \/ ReqReceive(r) \/ ReqElapsed(r) \/ ReqDropRx(r)
        \/ ReqRemove(r)

FairSpec ==
    /\ InitFleet("none", {1}, FALSE, WorkerIds, NumRequests, FairHeartbeats)
    /\ [][Next]_vars
    /\ \A r \in Requests : WF_vars(ReqProgress(r))

\* every /heartbeat handler that has applied its credits goes on to the end
\* of its drain, and a waiter whose channel is ready is resumed; the timer of
\* a waiter may fire at any time or never
HbProgress(h) == HbGetInfo(h) \/ HbDequeue(h) \/ HbSend(h) \/ HbFinal(h)

DrainSizes == {MaxQueueSize - 1}

SpecDrain ==
    /\ InitFleet("none", DrainSizes, FALSE, WorkerIds, NumRequests, FairHeartbeats)
    /\ [][Next]_vars
    /\ \A h \in Heartbeats : WF_vars(HbProgress(h))
    /\ \A r \in Requests : WF_vars(ReqReceive(r))

\* ------------------------------------------------- handlers over time

\* one heartbeat interval passes on the orchestrator's clock; no task of the
\* orchestrator is started by a timer other than the timeout of a waiter, so
\* the passing of time changes nothing else
Tick ==
    /\ now < MaxTicks
    /\ now' = now + 1
    /\ UNCHANGED <<prog, obs, fleet, calls, removed, reply, heard, hbl, lk, wrk>>

NextLive ==
    \/ Register
    \/ Unregister
    \/ RequestLen
    \/ RequestPick
    \/ RequestEnqueue
    \/ RequestReceive
    \/ RequestElapsed
    \/ RequestDropRx
    \/ RequestRemove
    \/ HeartbeatUpdate
    \/ HeartbeatGetInfo
    \/ HeartbeatDequeue
    \/ HeartbeatSend
    \/ HeartbeatFinal
    \/ Tick

\* the handlers around a queue of one place while time passes: the clock goes
\* on, every handler that can take a step takes it in the end; a worker may
\* fall silent at any time (a heartbeat or an unregister call is never due)
SpecLive ==
    /\ InitFleet("live", {1}, FALSE, WorkerIds, LiveRequests, LiveHeartbeats)
    /\ [][NextLive]_vars
    /\ WF_vars(Tick)
    /\ \A r \in Requests : WF_vars(ReqProgress(r))
    /\ \A h \in Heartbeats : WF_vars(HbProgress(h))

\* ------------------------------------- the Mutexes of registry and queue

\* every method of WorkerRegistry and of PendingQueue begins with
\* `self.inner.lock().await` and holds the guard until it returns
RegistrySteps == {"register", "unregister", "update_credits", "get_worker_info",
                  "final_update", "len", "pick_and_decrement", "registry_snapshot"}
QueueSteps == {"enqueue", "dequeue", "remove_job_by_id", "queue_snapshot"}

\* what no handler of SpecLocks writes
rest == <<max_size, req, hb, obs, fleet, calls, removed, reply, now, heard, hbl, wrk>>

\* the locks a handler has taken so far, one entry per run of the same lock
Acquired(acq, name) ==
    IF acq # <<>> /\ acq[Len(acq)] = name THEN acq ELSE Append(acq, name)

\* the handler has returned: its locals are gone, its response stays
TaskDone(t, status) == [task[t] EXCEPT !.pc = "done", !.status = status, !.job = None]

\* a request arrives at one of the five routes and its handler is spawned;
\* register_worker needs a Uuid not used before
TaskArrives(t) ==
    /\ task[t].pc = "idle" /\ \A k \in 1..(t - 1) : task[k].pc # "idle"
    /\ \/ /\ Cardinality({k \in Tasks : task[k].kind = "register"}) < Cardinality(WorkerIds)
          /\ \E c \in 0..MaxCredits :
               task' = [task EXCEPT ![t] = [@ EXCEPT !.kind = "register",
                                                     !.pc = "register", !.credits = c]]
       \/ \E w \in WorkerIds :
               task' = [task EXCEPT ![t] = [@ EXCEPT !.kind = "unregister",
                                                     !.pc = "unregister", !.worker_id = w]]
       \/ \E w \in WorkerIds, c \in 0..MaxCredits :
               task' = [task EXCEPT ![t] = [@ EXCEPT !.kind = "heartbeat",
                                                     !.pc = "update_credits",
                                                     !.worker_id = w, !.credits = c]]
       \/ task' = [task EXCEPT ![t] = [@ EXCEPT !.kind = "request", !.pc = "len"]]
       \/ task' = [task EXCEPT ![t] = [@ EXCEPT !.kind = "monitoring",
                                                !.pc = "registry_snapshot"]]
    /\ UNCHANGED <<registry, usedIds, queue, chan, nextJobId, registry_lock, queue_lock, rest>>

\* `self.inner.lock().await` of a WorkerRegistry method returns the guard
LockRegistry(t) ==
    /\ task[t].pc \in RegistrySteps
    /\ registry_lock = 0
    /\ registry_lock' = t
    /\ task' = [task EXCEPT ![t].acq = Acquired(@, "registry")]
    /\ UNCHANGED <<registry, usedIds, queue, chan, nextJobId, queue_lock, rest>>

\* `self.inner.lock().await` of a PendingQueue method returns the guard
LockQueue(t) ==
    /\ task[t].pc \in QueueSteps
    /\ queue_lock = 0
    /\ queue_lock' = t
    /\ task' = [task EXCEPT ![t].acq = Acquired(@, "queue")]
    /\ UNCHANGED <<registry, usedIds, queue, chan, nextJobId, registry_lock, rest>>

\* the handler is inside this method of the registry, guard in hand
InRegistry(t, step) == task[t].pc = step /\ registry_lock = t

\* the handler is inside this method of the queue, guard in hand
InQueue(t, step) == task[t].pc = step /\ queue_lock = t

\* register_worker: register inserts under the guard and returns; 201
TaskRegister(t) ==
    /\ InRegistry(t, "register")
    /\ \E id \in WorkerIds \ usedIds :
         /\ registry' = register(registry, id, PeerEndpoint(id), task[t].credits).m
         /\ usedIds' = usedIds \cup {id}
         /\ task' = [task EXCEPT ![t] = [TaskDone(t, CREATED) EXCEPT !.worker_id = id]]
    /\ registry_lock' = 0
    /\ UNCHANGED <<queue, chan, nextJobId, queue_lock, rest>>

\* unregister_worker: unregister removes under the guard and returns
TaskUnregister(t) ==
    /\ InRegistry(t, "unregister")
    /\ LET res == unregister(registry, task[t].worker_id)
       IN /\ registry' = res.m
          /\ task' = [task EXCEPT ![t] =
                        TaskDone(t, IF res.ret THEN OK ELSE WorkerNotFound)]
    /\ registry_lock' = 0
    /\ UNCHANGED <<usedIds, queue, chan, nextJobId, queue_lock, rest>>

\* heartbeat.rs lines 23-31: the first update_credits returns, its guard
\* dropped, before the handler looks at the result
TaskUpdateCredits(t) ==
    /\ InRegistry(t, "update_credits")
    /\ LET res == update_credits(registry, task[t].worker_id, task[t].credits)
       IN /\ registry' = res.m
          /\ task' = [task EXCEPT ![t] =
                        IF ~res.ret THEN TaskDone(t, WorkerNotFound)
                        ELSE IF task[t].credits = 0 THEN TaskDone(t, OK)
                        ELSE [@ EXCEPT !.pc = "get_worker_info"]]
    /\ registry_lock' = 0
    /\ UNCHANGED <<usedIds, queue, chan, nextJobId, queue_lock, rest>>

\* heartbeat.rs lines 33-38: get_worker_info clones the record and returns
TaskGetWorkerInfo(t) ==
    /\ InRegistry(t, "get_worker_info")
    /\ LET info == get_worker_info(registry, task[t].worker_id)
       IN task' = [task EXCEPT ![t] =
                     IF info = None THEN TaskDone(t, WorkerNotFound)
                     ELSE [@ EXCEPT !.pc = "dequeue", !.assigned = 0,
                                    !.worker_endpoint = info[1].endpoint]]
    /\ registry_lock' = 0
    /\ UNCHANGED <<registry, usedIds, queue, chan, nextJobId, queue_lock, rest>>

\* a dequeue whose guard outlives the call: the queue stays locked while the
\* job is answered
TaskDequeueKeepsLock(t) ==
    /\ InQueue(t, "dequeue")
    /\ LET res == dequeue(queue)
       IN /\ queue' = res.q
          /\ task' = [task EXCEPT ![t] =
                        IF res.ret = None THEN [@ EXCEPT !.pc = "final_update"]
                        ELSE [@ EXCEPT !.pc = "send", !.job = res.ret]]
    /\ queue_lock' = queue_lock
    /\ UNCHANGED <<registry, usedIds, chan, nextJobId, registry_lock, rest>>

\* heartbeat.rs lines 39-41 and 49-52 with queue.rs lines 38-41: dequeue
\* pops the front under the guard and returns the job, the guard dropped
TaskDequeue(t) ==
    /\ InQueue(t, "dequeue")
    /\ LET res == dequeue(queue)
       IN /\ queue' = res.q
          /\ task' = [task EXCEPT ![t] =
                        IF res.ret = None THEN [@ EXCEPT !.pc = "final_update"]
                        ELSE [@ EXCEPT !.pc = "send", !.job = res.ret]]
    /\ queue_lock' = 0
    /\ UNCHANGED <<registry, usedIds, chan, nextJobId, registry_lock, rest>>

\* heartbeat.rs lines 43-48 and the loop test of line 39: the send on the
\* job's responder, made by the handler itself with no method of the queue
TaskSend(t) ==
    /\ task[t].pc = "send"
    /\ LET job == task[t].job[1]
           res == send(chan[job.responder], task[t].worker_endpoint)
           assigned == IF res.ret THEN task[t].assigned + 1 ELSE task[t].assigned
       IN /\ chan' = [chan EXCEPT ![job.responder] = res.c]
          /\ task' = [task EXCEPT ![t] =
                        [@ EXCEPT !.assigned = assigned, !.job = None,
                                  !.pc = IF assigned < task[t].credits
                                         THEN "dequeue" ELSE "final_update"]]
    /\ UNCHANGED <<registry, usedIds, queue, nextJobId, registry_lock, queue_lock, rest>>

\* heartbeat.rs lines 55-58: the second update_credits, then 200
TaskFinalUpdate(t) ==
    /\ InRegistry(t, "final_update")
    /\ LET remaining_credits == saturating_sub(task[t].credits, task[t].assigned)
       IN registry' = update_credits(registry, task[t].worker_id, remaining_credits).m
    /\ task' = [task EXCEPT ![t] = TaskDone(t, OK)]
    /\ registry_lock' = 0
    /\ UNCHANGED <<usedIds, queue, chan, nextJobId, queue_lock, rest>>

\* handlers.rs lines 75-77: registry.len() returns
TaskLen(t) ==
    /\ InRegistry(t, "len")
    /\ task' = [task EXCEPT ![t] =
                  IF len(registry) = 0 THEN TaskDone(t, NoWorkers)
                  ELSE [@ EXCEPT !.pc = "pick_and_decrement"]]
    /\ registry_lock' = 0
    /\ UNCHANGED <<registry, usedIds, queue, chan, nextJobId, queue_lock, rest>>

\* handlers.rs lines 79-86: pick_and_decrement returns; Some is answered 201
TaskPick(t) ==
    /\ InRegistry(t, "pick_and_decrement")
    /\ \E order \in IterOrders(registry) :
         LET res == pick_and_decrement(registry, order)
         IN /\ registry' = res.m
            /\ task' = [task EXCEPT ![t] =
                          IF res.ret # None
                          THEN [TaskDone(t, CREATED) EXCEPT
                                   !.worker_endpoint = res.ret[1][2]]
                          ELSE [@ EXCEPT !.pc = "enqueue"]]
    /\ registry_lock' = 0
    /\ UNCHANGED <<usedIds, queue, chan, nextJobId, queue_lock, rest>>

\* handlers.rs lines 89-98 with queue.rs lines 28-36: the channel and the job
\* are built, enqueue pushes under the guard and returns; Err is QueueFull
TaskEnqueue(t) ==
    /\ InQueue(t, "enqueue")
    /\ LET job_id == nextJobId + 1
           res == enqueue(queue, max_size, Job(job_id))
       IN /\ nextJobId' = job_id
          /\ queue' = res.q
          /\ IF res.ret
             THEN /\ chan' = [chan EXCEPT ![job_id] = NewChannel]
                  /\ task' = [task EXCEPT ![t] =
                                [@ EXCEPT !.pc = "wait", !.job_id = job_id]]
             ELSE /\ chan' = [chan EXCEPT ![job_id] = drop_rx(drop_tx(NewChannel))]
                  /\ task' = [task EXCEPT ![t] =
                                [TaskDone(t, QueueFull) EXCEPT !.job_id = job_id]]
    /\ queue_lock' = 0
    /\ UNCHANGED <<registry, usedIds, registry_lock, rest>>

\* handlers.rs lines 102-114: the rendezvous is ready; no lock is involved
TaskReceive(t) ==
    /\ task[t].pc = "wait"
    /\ LET p == poll(chan[task[t].job_id])
       IN /\ p.ready
          /\ task' = [task EXCEPT ![t] =
                        IF p.ok
                        THEN [TaskDone(t, CREATED) EXCEPT !.worker_endpoint = p.value[1]]
                        ELSE TaskDone(t, Internal)]
    /\ chan' = [chan EXCEPT ![task[t].job_id] = drop_rx(@)]
    /\ UNCHANGED <<registry, usedIds, queue, nextJobId, registry_lock, queue_lock, rest>>

\* handlers.rs lines 102 and 115-117: the timeout elapses with the rendezvous
\* pending, and rx is dropped with the Timeout future
TaskElapsed(t) ==
    /\ task[t].pc = "wait"
    /\ ~poll(chan[task[t].job_id]).ready
    /\ chan' = [chan EXCEPT ![task[t].job_id] = drop_rx(@)]
    /\ task' = [task EXCEPT ![t].pc = "remove_job_by_id"]
    /\ UNCHANGED <<registry, usedIds, queue, nextJobId, registry_lock, queue_lock, rest>>

\* handlers.rs lines 118-119 with queue.rs lines 43-50: remove_job_by_id
\* returns, and the job it found is dropped with its sender
TaskRemove(t) ==
    /\ InQueue(t, "remove_job_by_id")
    /\ LET res == remove_job_by_id(queue, task[t].job_id)
       IN /\ queue' = res.q
          /\ chan' = IF res.ret # None
                     THEN [chan EXCEPT ![res.ret[1].responder] = drop_tx(@)]
                     ELSE chan
    /\ task' = [task EXCEPT ![t] = TaskDone(t, RequestTimeout)]
    /\ queue_lock' = 0
    /\ UNCHANGED <<registry, usedIds, nextJobId, registry_lock, rest>>

\* handlers.rs lines 130-131 with registry.rs lines 96-98: the map is cloned
\* under the guard
TaskRegistrySnapshot(t) ==
    /\ InRegistry(t, "registry_snapshot")
    /\ task' = [task EXCEPT ![t] = [@ EXCEPT !.pc = "queue_snapshot",
                                             !.view = Some(registry)]]
    /\ registry_lock' = 0
    /\ UNCHANGED <<registry, usedIds, queue, chan, nextJobId, queue_lock, rest>>

\* handlers.rs lines 134-139 with queue.rs lines 52-57: the summaries of the
\* queue are collected under the guard; 200
TaskQueueSnapshot(t) ==
    /\ InQueue(t, "queue_snapshot")
    /\ task' = [task EXCEPT ![t] =
                  [TaskDone(t, OK) EXCEPT !.view = Some(<<task[t].view[1], snapshot(queue)>>)]]
    /\ queue_lock' = 0
    /\ UNCHANGED <<registry, usedIds, queue, chan, nextJobId, registry_lock, rest>>

\* the step a handler inside a method of the registry makes next
RegistryMethod(t) ==
    \/ TaskRegister(t) \/ TaskUnregister(t) \/ TaskUpdateCredits(t)
    \/ TaskGetWorkerInfo(t) \/ TaskFinalUpdate(t) \/ TaskLen(t) \/ TaskPick(t)
    \/ TaskRegistrySnapshot(t)

\* the step a handler inside a method of the queue makes next
QueueMethod(t) ==
    \/ TaskDequeue(t) \/ TaskEnqueue(t) \/ TaskRemove(t) \/ TaskQueueSnapshot(t)

\* handlers of the five routes side by side, every lock().await a step
NextLocks ==
    \/ \E t \in Tasks : TaskArrives(t)
    \/ \E t \in Tasks : LockRegistry(t)
    \/ \E t \in Tasks : LockQueue(t)
    \/ \E t \in Tasks : TaskRegister(t)
    \/ \E t \in Tasks : TaskUnregister(t)
    \/ \E t \in Tasks : TaskUpdateCredits(t)
    \/ \E t \in Tasks : TaskGetWorkerInfo(t)
    \/ \E t \in Tasks : TaskDequeue(t)
    \/ \E t \in Tasks : TaskSend(t)
    \/ \E t \in Tasks : TaskFinalUpdate(t)
    \/ \E t \in Tasks : TaskLen(t)
    \/ \E t \in Tasks : TaskPick(t)
    \/ \E t \in Tasks : TaskEnqueue(t)
    \/ \E t \in Tasks : TaskReceive(t)
    \/ \E t \in Tasks : TaskElapsed(t)
    \/ \E t \in Tasks : TaskRemove(t)
    \/ \E t \in Tasks : TaskRegistrySnapshot(t)
    \/ \E t \in Tasks : TaskQueueSnapshot(t)

SpecLocks == InitFleet("none", {1}, FALSE, {}, 0, 0) /\ [][NextLocks]_vars

\* ---------------------------------------- pick_and_decrement on its own

\* the registries register, update_credits and pick_and_decrement can leave
\* behind: any set of ids, each with its endpoint and any credits
PickRegistries ==
    UNION {[ids -> 0..MaxCredits] : ids \in SUBSET (1..MaxPickWorkers)}

InitPick ==
    /\ now = 0
    /\ \E c \in PickRegistries :
         registry = [id \in DOMAIN c |-> WorkerInfo(PeerEndpoint(id), id, c[id])]
    /\ usedIds = DOMAIN registry
    /\ queue = <<>>
    /\ max_size = MaxQueueSize
    /\ chan = [j \in JobIds |-> NoChannel]
    /\ nextJobId = 0
    /\ req = [r \in Requests |-> IdleReq]
    /\ hb = [h \in Heartbeats |-> IdleHb]
    /\ drains = [j \in JobIds |-> 0]
    /\ handed = [j \in JobIds |-> 0]
    /\ overlap = TRUE
    /\ watch = "none"
    /\ budget = [id \in WorkerIds |-> None]
    /\ applied = [id \in WorkerIds |-> <<>>]
    /\ picked = None
    /\ tally = NoTally
    /\ fleet = DOMAIN registry
    /\ calls = [requests |-> NumRequests, heartbeats |-> NumHeartbeats]
    /\ removed = {}
    /\ reply = None
    /\ heard = [id \in WorkerIds |-> 0]
    /\ shutdown = "open"
    /\ posted = <<>>
    /\ registry_lock = 0
    /\ queue_lock = 0
    /\ task = [t \in Tasks |-> IdleTask]
    /\ InitWorker({1})

\* one call of pick_and_decrement, the map iterated in any order
PickAndDecrement ==
    /\ \E order \in IterOrders(registry) :
         LET res == pick_and_decrement(registry, order)
         IN /\ registry' = res.m
            /\ picked' = res.ret
    /\ UNCHANGED <<usedIds, queue, max_size, chan, nextJobId, req, hb,
                   drains, handed, overlap, watch, budget, applied, tally, life, wrk>>

NextPick == PickAndDecrement

SpecPick == InitPick /\ [][NextPick]_vars

\* ------------------------------------------------------ the worker process

\* the most jobs a worker announces room for
MAX_CREDITS == 1

\* JobTicket::acquire: counter.fetch_add(1)
acquire(counter) == counter + 1

\* a drop that leaves the counter alone
dropKeepsCount(counter) == counter

\* Drop for JobTicket: counter.fetch_sub(1); a ticket is dropped after its
\* acquire, so the counter is at least 1 here
drop(counter) == counter - 1

\* usize `a - b`: the difference, or on underflow what the build makes of it,
\* a panic (overflow checks on) or the difference modulo 2^64 (checks off);
\* [wrapped |-> TRUE, n |-> k] stands for 2^64 - k
usize_sub(a, b) ==
    IF a >= b
    THEN {[kind |-> "value", wrapped |-> FALSE, n |-> a - b]}
    ELSE {[kind |-> "panic", wrapped |-> FALSE, n |-> 0],
          [kind |-> "value", wrapped |-> TRUE, n |-> b - a]}

\* the ways the closure of run_wasm_module ends
Outcomes == {"Ok", "Execution", "Io", "panic"}

\* the response of the handler for each of them
Response(outcome) ==
    CASE outcome = "Ok" -> "Created"
      [] outcome = "Execution" -> "Execution"
      [] outcome = "Io" -> "Io"
      [] outcome = "panic" -> "JoinError"

\* errors.rs, to_http_response: the status of each WorkerError
BAD_REQUEST == 400
NOT_FOUND == 404
UNPROCESSABLE_ENTITY == 422
INTERNAL_SERVER_ERROR == 500

to_http_response(err) ==
    CASE err \in {"Validation", "Compile"} -> BAD_REQUEST
      [] err = "Execution" -> UNPROCESSABLE_ENTITY
      [] err = "ModuleNotFound" -> NOT_FOUND
      [] err \in {"Io", "JoinError"} -> INTERNAL_SERVER_ERROR

\* the status line of a handler's response: Ok((StatusCode::CREATED, ..)) or
\* the error's into_response
HttpStatus(status) ==
    IF status = "Created" THEN CREATED ELSE to_http_response(status)

\* Module::new(&engine, bytes): binaries whose first byte is 0 stand for
\* those that are no wasm module
Compiles(module_bytes) == module_bytes[1] # 0

\* a handler that has returned: its locals are gone, its response stays
SubDone(j, status) ==
    [sub[j] EXCEPT !.pc = "done", !.kind = "none", !.data = <<>>, !.status = status]

\* a handler that puts the bytes it was sent without compiling them
ArriveNoCompile(j, kind, data) ==
    IF data = <<>> THEN SubDone(j, "Validation")
    ELSE [sub[j] EXCEPT !.pc = "lock", !.kind = kind,
                        !.data = IF kind = "wasm" THEN hash_wasm_module(data)
                                 ELSE data]

\* handle_submit_wasm lines 19-28, handle_submit_hash lines 53-57: the
\* request is rejected, or the handler goes on to `module_cache.lock().await`
\* with the hash of the bytes it compiled (wasm) or the hash it was sent
Arrive(j, kind, data) ==
    IF data = <<>> THEN SubDone(j, "Validation")
    ELSE IF kind = "wasm" /\ ~Compiles(data) THEN SubDone(j, "Compile")
    ELSE [sub[j] EXCEPT !.pc = "lock", !.kind = kind,
                        !.data = IF kind = "wasm" THEN hash_wasm_module(data)
                                 ELSE data]

\* the bodies of the requests that arrive in SpecWorker: module_bytes that
\* are empty, that do not compile, that compile; module_hash that is empty,
\* of the module that compiles, of one never sent
ArrivalBodies(kind) ==
    IF kind = "wasm" THEN {<<>>, <<0>>, <<1>>}
    ELSE {<<>>, hash_wasm_module(<<1>>), hash_wasm_module(<<2>>)}

\* a /submit_wasm or /submit_hash request arrives
SubmitArrives(j) ==
    /\ sub[j].pc = "idle"
    /\ j <= NumSubmissions
    /\ \A k \in 1..(j - 1) : sub[k].pc # "idle"
    /\ \E kind \in {"wasm", "hash"} : \E data \in ArrivalBodies(kind) :
         sub' = [sub EXCEPT ![j] = Arrive(j, kind, data)]
    /\ UNCHANGED <<prog, obs, life, num_jobs, tickets, cache_lock, worker_seq, beat, mc>>

\* a miss that is answered only after a ticket was taken and left behind
SubModuleNotFoundWithTicket(j) ==
    /\ sub[j].pc = "lock"
    /\ sub[j].kind = "hash"
    /\ cache_lock = 0
    /\ get(module_cache, sub[j].data).ret = None
    /\ num_jobs' = acquire(num_jobs)
    /\ sub' = [sub EXCEPT ![j] = SubDone(j, "ModuleNotFound")]
    /\ UNCHANGED <<prog, obs, life, tickets, cache_lock, worker_seq, beat, mc>>

\* submit_hash lines 59-60: the lock is granted and the hash is not in the
\* cache; the guard goes with the return
SubModuleNotFound(j) ==
    /\ sub[j].pc = "lock"
    /\ sub[j].kind = "hash"
    /\ cache_lock = 0
    /\ get(module_cache, sub[j].data).ret = None
    /\ sub' = [sub EXCEPT ![j] = SubDone(j, "ModuleNotFound")]
    /\ UNCHANGED <<prog, obs, life, num_jobs, tickets, cache_lock, worker_seq, beat, mc>>

\* submit_wasm lines 30-36, submit_hash lines 59-65, runner.rs line 11: the
\* lock is granted; the module compiled is put under its hash (wasm) or the
\* module of the hash is found (hash); JobTicket::acquire, and the closure
\* that owns the ticket is handed to spawn_blocking; the handler awaits it,
\* the guard still held
SubAcquire(j) ==
    /\ sub[j].pc = "lock"
    /\ cache_lock = 0
    /\ IF sub[j].kind = "wasm"
       THEN module_cache' = put(module_cache, sub[j].data, j)
       ELSE LET res == get(module_cache, sub[j].data)
            IN res.ret # None /\ module_cache' = res.c
    /\ cache_lock' = j
    /\ num_jobs' = acquire(num_jobs)
    /\ tickets' = [tickets EXCEPT ![j].acquired = @ + 1]
    /\ sub' = [sub EXCEPT ![j] = [@ EXCEPT !.pc = "run", !.kind = "none",
                                           !.data = <<>>, !.exec = "spawned"]]
    /\ UNCHANGED <<prog, obs, life, worker_seq, beat, uses, stamp, latest, got, client>>

\* runner.rs lines 11-13: the closure starts on a blocking thread
ExecStart(j) ==
    /\ sub[j].exec = "spawned"
    /\ sub' = [sub EXCEPT ![j].exec = "running"]
    /\ UNCHANGED <<prog, obs, life, num_jobs, tickets, cache_lock, worker_seq, beat, mc>>

\* the closure ending with the ticket kept alive when the run failed
ExecStopLeaksOnFailure(j) ==
    /\ sub[j].exec = "running"
    /\ \E outcome \in Outcomes :
         /\ sub' = [sub EXCEPT ![j].exec = outcome]
         /\ IF outcome = "Execution"
            THEN UNCHANGED <<num_jobs, tickets>>
            ELSE /\ num_jobs' = drop(num_jobs)
                 /\ tickets' = [tickets EXCEPT ![j].dropped = @ + 1]
    /\ UNCHANGED <<prog, obs, life, cache_lock, worker_seq, beat, mc>>

\* runner.rs lines 26-38: the closure ends, by Ok(buf) (line 37), by the
\* Execution error of line 31, by the I/O error of line 36 or by a panic that
\* unwinds it; `_ticket` (line 13) is dropped as it ends
ExecStop(j) ==
    /\ sub[j].exec = "running"
    /\ \E outcome \in Outcomes : sub' = [sub EXCEPT ![j].exec = outcome]
    /\ num_jobs' = drop(num_jobs)
    /\ tickets' = [tickets EXCEPT ![j].dropped = @ + 1]
    /\ UNCHANGED <<prog, obs, life, cache_lock, worker_seq, beat, mc>>

\* runner.rs lines 39-41, submission.rs lines 36-43 and 65-72: the join
\* handle is ready, the handler returns and its guard is dropped
SubJoin(j) ==
    /\ sub[j].pc = "run"
    /\ sub[j].exec \in Outcomes
    /\ sub' = [sub EXCEPT ![j] = SubDone(j, Response(sub[j].exec))]
    /\ cache_lock' = 0
    /\ UNCHANGED <<prog, obs, life, num_jobs, tickets, worker_seq, beat, mc>>

\* the connection of the caller is closed while the handler is suspended at
\* line 30/59 or at line 36/65: its future is dropped, and the guard with it;
\* a closure handed to spawn_blocking runs on
SubCancel(j) ==
    /\ sub[j].pc \in {"lock", "run"}
    /\ sub' = [sub EXCEPT ![j] = [@ EXCEPT !.pc = "gone", !.kind = "none", !.data = <<>>]]
    /\ cache_lock' = IF cache_lock = j THEN 0 ELSE cache_lock
    /\ UNCHANGED <<prog, obs, life, num_jobs, tickets, worker_seq, beat, mc>>

\* heartbeat.rs lines 52-53 and 18: a tick, `seq.fetch_add(1)`
BeatSeq ==
    /\ beat.pc = "tick"
    /\ worker_seq < MaxBeats
    /\ worker_seq' = worker_seq + 1
    /\ beat' = [beat EXCEPT !.pc = "load", !.new_seq = worker_seq + 1]
    /\ UNCHANGED <<prog, obs, life, num_jobs, tickets, cache_lock, sub, mc>>

\* a heartbeat that always announces MAX_CREDITS
BeatBuildFull ==
    /\ beat.pc = "load"
    /\ beat' = [beat EXCEPT !.pc = "post",
                   !.payload = Some([credits |-> [wrapped |-> FALSE, n |-> MAX_CREDITS],
                                     seq |-> beat.new_seq])]
    /\ UNCHANGED <<prog, obs, life, num_jobs, tickets, cache_lock, sub, worker_seq, mc>>

\* heartbeat.rs lines 20-23: `MAX_CREDITS - num_jobs.load()` and the payload;
\* a panic ends the task of the loop
BeatBuild ==
    /\ beat.pc = "load"
    /\ \E d \in usize_sub(MAX_CREDITS, num_jobs) :
         beat' = IF d.kind = "panic"
                 THEN [beat EXCEPT !.pc = "dead", !.new_seq = 0]
                 ELSE [beat EXCEPT !.pc = "post",
                          !.payload = Some([credits |-> [wrapped |-> d.wrapped, n |-> d.n],
                                            seq |-> beat.new_seq])]
    /\ UNCHANGED <<prog, obs, life, num_jobs, tickets, cache_lock, sub, worker_seq, mc>>

\* the post of the loop with this seq was answered, well or not
Posted(ps, seq, ok) ==
    IF watch = "beat" THEN Append(ps, [seq |-> seq, ok |-> ok]) ELSE ps

\* a loop that takes back the seq of a heartbeat that failed
BeatPostRewinds ==
    /\ beat.pc = "post"
    /\ \E ok \in BOOLEAN :
         /\ posted' = Posted(posted, beat.payload[1].seq, ok)
         /\ worker_seq' = IF ok THEN worker_seq ELSE worker_seq - 1
    /\ beat' = IdleBeat
    /\ UNCHANGED <<prog, obs, fleet, calls, removed, reply, now, heard, shutdown, lk,
                   num_jobs, tickets, cache_lock, sub, mc>>

\* heartbeat.rs lines 25-36 and 53-55: the post is answered with success
\* (Ok), or it fails to be sent or is answered with another status (Err),
\* which is logged; either way the loop waits for its next tick
BeatPost ==
    /\ beat.pc = "post"
    /\ \E ok \in BOOLEAN :
         /\ posted' = Posted(posted, beat.payload[1].seq, ok)
         /\ worker_seq' = worker_seq
    /\ beat' = IdleBeat
    /\ UNCHANGED <<prog, obs, fleet, calls, removed, reply, now, heard, shutdown, lk,
                   num_jobs, tickets, cache_lock, sub, mc>>

\* the owner of the sender stops the loop: `tx.send(())`, or the sender is
\* dropped; either makes `&mut rx` ready
ShutdownSignal ==
    /\ shutdown = "open"
    /\ shutdown' = "signalled"
    /\ UNCHANGED <<prog, obs, fleet, calls, removed, reply, now, heard, posted, lk, wrk>>

\* heartbeat.rs lines 51 and 57-61: select! finds rx ready at the top of the
\* loop and breaks; the task of the loop ends
BeatStop ==
    /\ beat.pc = "tick"
    /\ shutdown = "signalled"
    /\ beat' = [beat EXCEPT !.pc = "stopped"]
    /\ UNCHANGED <<prog, obs, life, num_jobs, tickets, cache_lock, sub, worker_seq, mc>>

\* the heartbeat loop until it is shut down, beside one submission
NextBeat ==
    \/ BeatSeq
    \/ BeatBuild
    \/ BeatPost
    \/ ShutdownSignal
    \/ BeatStop
    \/ SubmitArrives(1)
    \/ SubModuleNotFound(1)
    \/ SubAcquire(1)
    \/ ExecStart(1)
    \/ ExecStop(1)
    \/ SubJoin(1)

SpecBeat == InitFleet("beat", {1}, FALSE, {}, 0, 0) /\ [][NextBeat]_vars

NextWorker ==
    \/ \E j \in Submissions :
          \/ SubmitArrives(j)
          \/ SubModuleNotFound(j)
          \/ SubAcquire(j)
          \/ ExecStart(j)
          \/ ExecStop(j)
          \/ SubJoin(j)
          \/ SubCancel(j)
    \/ BeatSeq
    \/ BeatBuild
    \/ BeatPost

\* the module cache on its own: any sequence of get and put calls
CachePut(key, module) ==
    /\ uses < MaxUses
    /\ module_cache' = put(module_cache, key, module)
    /\ uses' = uses + 1
    /\ stamp' = [stamp EXCEPT ![key] = uses + 1]
    /\ latest' = [latest EXCEPT ![key] = Some(module)]
    /\ UNCHANGED <<prog, obs, life, num_jobs, tickets, cache_lock, sub,
                   worker_seq, beat, got, client>>

CacheGet(key) ==
    /\ uses < MaxUses
    /\ LET res == get(module_cache, key)
       IN /\ module_cache' = res.c
          /\ got' = Some([key |-> key, ret |-> res.ret])
          /\ stamp' = IF res.ret # None THEN [stamp EXCEPT ![key] = uses + 1]
                      ELSE stamp
    /\ uses' = uses + 1
    /\ UNCHANGED <<prog, obs, life, num_jobs, tickets, cache_lock, sub,
                   worker_seq, beat, latest, client>>

NextCache ==
    \E key \in Keys :
        \/ \E module \in Arcs : CachePut(key, module)
        \/ CacheGet(key)

SpecCache ==
    /\ InitOrchestrator("none", {1}, FALSE, {}, 0, 0)
    /\ InitWorker(1..MaxCacheCap)
    /\ [][NextCache]_vars

----------------------------------------------------------------------------
\* client main.rs, submit: one run of the client program against one worker

\* the contents of the wasm file: empty, not a module, or one of the modules
ClientBinaries == {<<>>} \cup {<<b>> : b \in 0..MaxClientModules}

\* reqwest StatusCode::is_success
is_success(status) == status >= 200 /\ status <= 299

\* the handlers of the /submit_hash and of the /submit_wasm request of a run
HashSlot(c) == 2 * c - 1
WasmSlot(c) == 2 * c

\* lines 33-46: the hash of the bytes is computed and posted to /submit_hash
ClientStart(c) ==
    /\ client[c].pc = "idle"
    /\ \A d \in 1..(c - 1) : client[d].pc # "idle"
    /\ \E wasm_bytes \in ClientBinaries :
         /\ client' = [client EXCEPT ![c] =
               [pc |-> "hash", wasm_bytes |-> wasm_bytes, sent |-> <<"hash">>,
                hash_status |-> 0, result |-> "none",
                after |-> {d \in Clients : client[d].pc = "done"}]]
         /\ sub' = [sub EXCEPT ![HashSlot(c)] =
               Arrive(HashSlot(c), "hash", hash_wasm_module(wasm_bytes))]
    /\ UNCHANGED <<prog, obs, life, num_jobs, tickets, cache_lock, worker_seq, beat,
                   module_cache, uses, stamp, latest, got>>

\* a run that falls back to /submit_wasm whatever /submit_hash answered
ClientHashAnswerAlwaysUploads(c) ==
    /\ client[c].pc = "hash"
    /\ sub[HashSlot(c)].pc = "done"
    /\ client' = [client EXCEPT ![c] =
          [@ EXCEPT !.pc = "wasm", !.sent = Append(@, "wasm"),
                    !.hash_status = HttpStatus(sub[HashSlot(c)].status)]]
    /\ sub' = [sub EXCEPT ![WasmSlot(c)] =
          Arrive(WasmSlot(c), "wasm", client[c].wasm_bytes)]
    /\ UNCHANGED <<prog, obs, life, num_jobs, tickets, cache_lock, worker_seq, beat,
                   module_cache, uses, stamp, latest, got>>

\* lines 48-64 and 81-90: the answer to /submit_hash; on 404 the bytes are
\* posted to /submit_wasm, any other answer ends the run
ClientHashAnswer(c) ==
    /\ client[c].pc = "hash"
    /\ sub[HashSlot(c)].pc = "done"
    /\ LET status == HttpStatus(sub[HashSlot(c)].status)
       IN IF status = NOT_FOUND
          THEN /\ client' = [client EXCEPT ![c] =
                     [@ EXCEPT !.pc = "wasm", !.sent = Append(@, "wasm"),
                               !.hash_status = status]]
               /\ sub' = [sub EXCEPT ![WasmSlot(c)] =
                     Arrive(WasmSlot(c), "wasm", client[c].wasm_bytes)]
          ELSE /\ client' = [client EXCEPT ![c] =
                     [@ EXCEPT !.pc = "done", !.hash_status = status,
                               !.result = IF is_success(status) THEN "Ok" ELSE "Err"]]
               /\ UNCHANGED sub
    /\ UNCHANGED <<prog, obs, life, num_jobs, tickets, cache_lock, worker_seq, beat,
                   module_cache, uses, stamp, latest, got>>

\* lines 66-78: the answer to /submit_wasm
ClientWasmAnswer(c) ==
    /\ client[c].pc = "wasm"
    /\ sub[WasmSlot(c)].pc = "done"
    /\ client' = [client EXCEPT ![c] =
          [@ EXCEPT !.pc = "done",
                    !.result = IF is_success(HttpStatus(sub[WasmSlot(c)].status))
                               THEN "Ok" ELSE "Err"]]
    /\ UNCHANGED <<prog, obs, life, num_jobs, tickets, cache_lock, sub, worker_seq, beat,
                   module_cache, uses, stamp, latest, got>>

\* the client awaits each answer, so no handler is dropped with its connection
NextClient ==
    \/ \E c \in Clients :
         \/ ClientStart(c)
         \/ ClientHashAnswer(c)
         \/ ClientWasmAnswer(c)
    \/ \E j \in Submissions :
         \/ SubModuleNotFound(j)
         \/ SubAcquire(j)
         \/ ExecStart(j)
         \/ ExecStop(j)
         \/ SubJoin(j)

SpecClient ==
    /\ InitOrchestrator("none", {1}, FALSE, {}, 0, 0)
    /\ InitWorker(1..MaxCacheCap)
    /\ [][NextClient]_vars

\* one worker process on its own: no call reaches the orchestrator
SpecWorker == InitFleet("none", {1}, FALSE, {}, 0, 0) /\ [][NextWorker]_vars

\* ------------------------------------------------------------ properties

\* the greatest credits of any record of m (0 when there is none)
MaxCreditsOf(m) ==
    IF DOMAIN m = {} THEN 0
    ELSE CHOOSE c \in {m[w].credits : w \in DOMAIN m} :
            \A w \in DOMAIN m : m[w].credits <= c

\* the call of request r has put a job of its own in the queue
Enqueued(r) == req[r].job_id \in JobIds /\ req[r].status # QueueFull

\* how many /heartbeat handlers hold job j, dequeued and not yet sent to
Holders(j) == {h \in Heartbeats : hb[h].job # None /\ hb[h].job[1].job_id = j}

\* the places of the queue that hold job j
Places(q, j) == {i \in 1..Len(q) : q[i].job_id = j}

\* q without the jobs whose id is job_id, the others in their order
Without(q, job_id) == SelectSeq(q, LAMBDA x : x.job_id # job_id)

\* C1: no double-spending.  Between the moment the credits of a heartbeat of
\* worker w are written and the moment its next heartbeat is applied, the
\* direct picks of w and the waiters handed w's endpoint number at most the
\* credits that heartbeat carried: the budget never goes below zero.
C1_NoDoubleSpending ==
    \A w \in WorkerIds : budget[w] # None => budget[w][1] >= 0

\* C2: when some record has credits > 0, pick_and_decrement returns the id
\* and the endpoint of a record whose credits are greatest, takes 1 from the
\* credits of that record and changes nothing else.
C2_PickMaxAndDecrement ==
    [][(\E w \in DOMAIN registry : registry[w].credits > 0)
        => /\ picked' # None
           /\ LET id == picked'[1][1]
              IN /\ id \in DOMAIN registry
                 /\ registry[id].credits = MaxCreditsOf(registry)
                 /\ picked'[1][2] = registry[id].endpoint
                 /\ registry' = [registry EXCEPT ![id].credits = registry[id].credits - 1]
                 /\ registry'[id].endpoint = registry[id].endpoint
                 /\ registry'[id].id = registry[id].id
                 /\ registry'[id].seq = registry[id].seq]_vars

\* C2 happens: a record was picked over another one that also had credits,
\* but fewer (the picked record has already lost 1)
C2_Witness ==
    /\ picked # None
    /\ \E w \in DOMAIN registry :
         /\ w # picked[1][1]
         /\ registry[w].credits > 0
         /\ registry[w].credits < registry[picked[1][1]].credits + 1

\* C3: the credits of every record are >= 0 in every reachable state, and
\* no heartbeat hands out more than it carried.
C3_CreditsNonNegative ==
    /\ \A w \in DOMAIN registry : registry[w].credits >= 0
    /\ \A h \in Heartbeats : hb[h].assigned <= hb[h].credits

\* C3 happens: a pick has taken the last credit of a worker and a later call
\* found none left
C3_Witness ==
    /\ \E w \in DOMAIN registry : registry[w].credits = 0
    /\ \E r \in Requests :
         req[r].pc = "done" /\ req[r].status = CREATED /\ req[r].job_id = DirectJobId(r)
    /\ \E r \in Requests : req[r].pc \in {"enqueue", "wait"}

\* C4: the pending queue never holds more than max_size jobs.
C4_QueueBounded == Len(queue) <= max_size

\* C4 happens: the queue is full and a call has been turned away
C4_Witness ==
    /\ Len(queue) = max_size
    /\ \E r \in Requests : req[r].pc = "done" /\ req[r].status = QueueFull

\* C5: a heartbeat whose seq is not above the seq applied before it for the
\* same worker is discarded, so the seqs of the heartbeats whose credits are
\* written to one worker's record are strictly increasing.
C5_StaleHeartbeatsDiscarded ==
    \A w \in WorkerIds : Len(applied[w]) = 2 => applied[w][1] < applied[w][2]

\* C6: the responder of every queued job is resolved exactly once: no job is
\* dequeued twice or held twice, none is sent two endpoints, and the call that
\* queued it ends with exactly one outcome, the endpoint sent to it, a timeout
\* or a close.
C6_ResolvedExactlyOnce ==
    /\ \A j \in JobIds :
         /\ drains[j] <= 1
         /\ handed[j] <= 1
         /\ Cardinality(Holders(j)) + Cardinality(Places(queue, j)) <= 1
    /\ \A r \in Requests :
         Enqueued(r) /\ req[r].pc = "done"
         => /\ req[r].status \in {CREATED, RequestTimeout, Internal}
            /\ req[r].status = CREATED
               => /\ handed[req[r].job_id] = 1
                  /\ Some(req[r].worker_endpoint) = chan[req[r].job_id].value
            /\ req[r].status # CREATED => req[r].worker_endpoint = NoEndpoint

\* C6 happens: one waiter was sent an endpoint and returned it, another timed
\* out and its job was then dequeued by a drain whose send found it gone
C6_Witness ==
    \E r1, r2 \in Requests :
        /\ Enqueued(r1) /\ req[r1].pc = "done" /\ req[r1].status = CREATED
        /\ Enqueued(r2) /\ req[r2].pc = "done" /\ req[r2].status = RequestTimeout
        /\ drains[req[r2].job_id] = 1

\* C7: a /request_worker call that finds the registry empty fails with
\* NoWorkers (503), enqueues nothing and changes no credits.
C7_NoWorkers ==
    [][\A r \in Requests :
         req[r].pc = "idle" /\ req'[r].pc # "idle" /\ DOMAIN registry = {}
         => /\ req'[r].pc = "done"
            /\ req'[r].status = NoWorkers
            /\ NoWorkers = 503
            /\ queue' = queue
            /\ registry' = registry]_vars

\* C7 happens: a call was answered NoWorkers
C7_Witness ==
    \E r \in Requests : req[r].pc = "done" /\ req[r].status = NoWorkers

\* C8: a call that finds no credits leaves the registry alone, and when it
\* then finds the queue full it fails with QueueFull (429) at once, the queue
\* and all credits unchanged.
C8_QueueFull ==
    [][\A r \in Requests :
         /\ req[r].pc = "pick" /\ req'[r].pc = "enqueue" => registry' = registry
         /\ req[r].pc = "enqueue" /\ req'[r].pc # "enqueue" /\ Len(queue) >= max_size
            => /\ req'[r].pc = "done"
               /\ req'[r].status = QueueFull
               /\ QueueFull = 429
               /\ queue' = queue
               /\ registry' = registry]_vars

\* C8 happens: a call was answered QueueFull and the queue is still full
C8_Witness ==
    /\ Len(queue) = max_size
    /\ \A w \in DOMAIN registry : registry[w].credits = 0
    /\ \E r \in Requests : req[r].pc = "done" /\ req[r].status = QueueFull

\* C9: every /request_worker call returns; a waiter that was sent no endpoint
\* returns RequestTimeout (408), and when it does the monitoring snapshot of
\* the queue no longer lists its job_id.
C9_WaiterTimesOut ==
    /\ \A r \in Requests : (req[r].pc \notin {"idle", "done"}) ~> (req[r].pc = "done")
    /\ [](\A r \in Requests :
            Enqueued(r) /\ req[r].pc = "done"
            => /\ handed[req[r].job_id] = 0 => req[r].status = RequestTimeout
               /\ RequestTimeout = 408
               /\ req[r].status = RequestTimeout
                  => \A i \in 1..Len(snapshot(queue)) : snapshot(queue)[i] # req[r].job_id)

\* C9 happens: a waiter has timed out while other jobs are still queued
C9_Witness ==
    /\ queue # <<>>
    /\ \E r \in Requests :
         Enqueued(r) /\ req[r].pc = "done" /\ req[r].status = RequestTimeout

C11_ReleasedWithSendersEndpoint ==
    [][/\ \A h \in Heartbeats :
            hb[h].pc = "send" /\ hb'[h].pc # "send"
            => LET j == hb[h].job[1].job_id
               IN handed'[j] > handed[j]
                  => chan'[j].value = Some(PeerEndpoint(hb[h].worker_id))
       /\ \A r \in Requests :
            req[r].pc = "enqueue" /\ req'[r].pc = "wait"
            => queue'[Len(queue')].job_id = req'[r].job_id
       /\ \A r \in Requests :
            req[r].pc = "wait" /\ req'[r].pc = "done" /\ handed[req[r].job_id] = 1
            => /\ req'[r].status = CREATED
               /\ CREATED = 201
               /\ req'[r].job_id = req[r].job_id
               /\ Some(req'[r].worker_endpoint) = chan[req[r].job_id].value]_vars

\* C11 happens: with both workers registered, a waiter has returned the
\* endpoint of the second
C11_Witness ==
    /\ DOMAIN registry = FleetIds
    /\ \E r \in Requests :
         /\ Enqueued(r) /\ req[r].pc = "done" /\ req[r].status = CREATED
         /\ req[r].worker_endpoint = PeerEndpoint(MaxFleetWorkers)

\* the ids of the records of m whose credits are greatest
Richest(m) == {w \in DOMAIN m : m[w].credits = MaxCreditsOf(m)}

\* C13: when several records tie for the greatest positive credits,
\* pick_and_decrement returns the lowest worker_id among them, whatever the
\* order in which the map is iterated.
C13_TieLowestId ==
    [][(\E w \in DOMAIN registry : registry[w].credits > 0)
        => /\ picked' # None
           /\ picked'[1][1] \in Richest(registry)
           /\ \A w \in Richest(registry) : picked'[1][1] <= w]_vars

\* C14: a /heartbeat whose worker_id is not in the registry is answered
\* WorkerNotFound (404) at once; it makes no record, changes no record and
\* dequeues no waiter.
C14_UnknownWorkerHeartbeat ==
    [][\A h \in Heartbeats :
         hb[h].pc = "idle" /\ hb'[h].pc # "idle"
         => \A w \in fleet \ DOMAIN registry, s \in 1..MaxSeq, c \in 0..MaxCredits :
              HbUpdate(h, w, s, c)
              => /\ hb'[h].pc = "done"
                 /\ hb'[h].status = WorkerNotFound
                 /\ WorkerNotFound = 404
                 /\ registry' = registry
                 /\ queue' = queue
                 /\ chan' = chan
                 /\ drains' = drains]_vars

\* C14 happens: a heartbeat of an id that was never registered was answered
\* WorkerNotFound while another worker is registered and a waiter is queued
C14_Witness ==
    /\ removed = {}
    /\ DOMAIN registry # {}
    /\ queue # <<>>
    /\ \E h \in Heartbeats : hb[h].pc = "done" /\ hb[h].status = WorkerNotFound

\* C15: a worker_id is in the registry exactly when register has returned it
\* and unregister has not been called for it since; unregister_worker
\* answers 200 iff the id was there and removes it, answers 404 for an id
\* already removed, and no other handler adds a record.
C15_RegistryMembership ==
    /\ [](DOMAIN registry = usedIds \ removed)
    /\ [][/\ DOMAIN registry' \subseteq DOMAIN registry \cup (usedIds' \ usedIds)
          /\ reply' # None /\ reply'[1].op = "unregister"
             => LET w == reply'[1].worker_id
                IN UnregisterWorker(w)
                   => /\ reply'[1].status = OK <=> w \in DOMAIN registry
                      /\ reply'[1].status = WorkerNotFound <=> w \notin DOMAIN registry
                      /\ OK = 200 /\ WorkerNotFound = 404
                      /\ w \in removed => reply'[1].status = WorkerNotFound
                      /\ DOMAIN registry' = DOMAIN registry \ {w}
                      /\ \A v \in DOMAIN registry' : registry'[v] = registry[v]]_vars

\* C15 happens: an id was unregistered a second time and answered 404, a
\* heartbeat has found an id missing, and the other worker is still there
C15_Witness ==
    /\ reply # None
    /\ reply[1].op = "unregister"
    /\ reply[1].status = WorkerNotFound
    /\ reply[1].worker_id \in removed
    /\ DOMAIN registry # {}
    /\ \E h \in Heartbeats : hb[h].pc = "done" /\ hb[h].status = WorkerNotFound

\* C16: register_worker always answers 201 with an id no earlier call
\* returned; right after, the registry holds under that id a record with the
\* endpoint given, the initial_credits reported, seq 0 and the time of the
\* call as last_seen, and every record that was there before is unchanged.
C16_RegisterInsertsFresh ==
    [][usedIds' # usedIds
        => /\ reply' # None
           /\ reply'[1].op = "register"
           /\ reply'[1].status = CREATED
           /\ CREATED = 201
           /\ LET id == reply'[1].worker_id
              IN /\ id \notin usedIds
                 /\ usedIds' = usedIds \cup {id}
                 /\ DOMAIN registry' = DOMAIN registry \cup {id}
                 /\ \A v \in DOMAIN registry : registry'[v] = registry[v]
                 /\ \A c \in 0..MaxCredits :
                      RegisterWorker(id, PeerEndpoint(id), c)
                      => registry'[id] = [endpoint |-> PeerEndpoint(id), id |-> id,
                                          credits |-> c, seq |-> 0,
                                          last_seen |-> now]
                 /\ \E c \in 0..MaxCredits : RegisterWorker(id, PeerEndpoint(id), c)]_vars

\* C16 happens: a worker has just been registered with credits beside the
\* record of the other, after a heartbeat was applied
C16_Witness ==
    /\ reply # None
    /\ reply[1].op = "register"
    /\ DOMAIN registry = FleetIds
    /\ registry[reply[1].worker_id].credits > 0
    /\ \E h \in Heartbeats : hb[h].pc = "done" /\ hb[h].status = OK

\* C17: pick_and_decrement returns None and leaves the registry as it is when
\* the registry is empty or every record has credits 0, so the
\* /request_worker call that made it goes on to enqueue.
C17_PickNoneLeavesRegistry ==
    [][\A r \in Requests :
         /\ req[r].pc = "pick" /\ req'[r].pc # "pick"
         /\ \A w \in DOMAIN registry : registry[w].credits = 0
         => /\ req'[r].pc = "enqueue"
            /\ registry' = registry
            /\ \A order \in IterOrders(registry) :
                 pick_and_decrement(registry, order) = [ret |-> None, m |-> registry]]_vars

\* C17 happens: a call has found both workers registered with no credits
\* and is about to enqueue
C17_Witness ==
    /\ DOMAIN registry = FleetIds
    /\ \A w \in DOMAIN registry : registry[w].credits = 0
    /\ nextJobId = 0
    /\ \A h \in Heartbeats : hb[h].pc \in {"idle", "done"}
    /\ \E r \in Requests : req[r].pc = "enqueue"

\* the hand-overs a draining /heartbeat handler can still make to the queue:
\* its credits less the sends it has counted, less the job it holds when the
\* receiver of that job is there to take it
DrainSlots(h) ==
    IF hb[h].pc = "dequeue" THEN hb[h].credits - hb[h].assigned
    ELSE IF hb[h].pc = "send"
         THEN hb[h].credits - hb[h].assigned
              - (IF chan[hb[h].job[1].responder].rx_alive THEN 1 ELSE 0)
    ELSE 0

RECURSIVE SumSlots(_)
SumSlots(hs) ==
    IF hs = {} THEN 0
    ELSE LET h == CHOOSE x \in hs : TRUE IN DrainSlots(h) + SumSlots(hs \ {h})

\* the jobs queued before job j whose waiter has not given up
LiveAhead(j) ==
    {i \in 1..(Position(queue, j) - 1) : chan[queue[i].responder].rx_alive}

\* the waiter of call r stands in the queue with enough draining credits to
\* reach it past the live waiters before it, or its job is already in the
\* hands of a drain
Reachable(r) ==
    /\ req[r].pc = "wait"
    /\ \/ Holders(req[r].job_id) # {}
       \/ /\ Position(queue, req[r].job_id) # 0
          /\ SumSlots(Heartbeats) > Cardinality(LiveAhead(req[r].job_id))

\* the call of r has returned 201 with an endpoint
Served(r) == req[r].pc = "done" /\ req[r].status = CREATED

\* the timer of r has fired
TimedOut(r) ==
    \/ req[r].pc \in {"elapsed", "remove"}
    \/ req[r].pc = "done" /\ req[r].status = RequestTimeout

\* C12 as claimed: a queued waiter that draining heartbeats can reach is
\* handed an endpoint before it times out.
C12_ServedBeforeTimeout ==
    \A r \in Requests : Reachable(r) ~> Served(r)

\* C12, amended: a queued waiter that draining heartbeats can reach is handed
\* an endpoint unless its timer fires first, whatever other calls arrive; and
\* no arrival ever moves a queued job back.
C12_NoStarvation ==
    /\ \A r \in Requests : Reachable(r) ~> (Served(r) \/ TimedOut(r))
    /\ [][\A j \in JobIds :
            Position(queue, j) # 0 /\ Position(queue', j) # 0
            => Position(queue', j) <= Position(queue, j)]_vars

\* C12 happens: the waiter enqueued second has been served although a third
\* call arrived meanwhile and the first waiter timed out
C12_Witness ==
    \E r1, r2, r3 \in Requests :
        /\ req[r1].job_id = 1 /\ TimedOut(r1)
        /\ req[r2].job_id = 2 /\ Enqueued(r2) /\ Served(r2)
        /\ req[r3].job_id = 3 /\ req[r3].pc = "wait"

\* the live tickets of submission j
Live(j) == tickets[j].acquired - tickets[j].dropped

RECURSIVE LiveTickets(_)
LiveTickets(js) ==
    IF js = {} THEN 0
    ELSE LET j == CHOOSE x \in js : TRUE IN Live(j) + LiveTickets(js \ {j})

\* C18: the counter of active jobs is the number of live JobTickets in every
\* state; an acquire raises it by exactly 1 and a drop lowers it by exactly
\* 1, whichever ticket is dropped, and it is 0 again when no ticket is live.
C18_CounterIsLiveTickets ==
    /\ [](num_jobs = LiveTickets(Submissions))
    /\ []((\A j \in Submissions : Live(j) = 0) => num_jobs = 0)
    /\ [][\A j \in Submissions :
            /\ tickets'[j].acquired # tickets[j].acquired
               => num_jobs' = num_jobs + 1
            /\ tickets'[j].dropped # tickets[j].dropped
               => num_jobs' = num_jobs - 1]_vars

\* C18 happens: three tickets were acquired, the first and the last of them
\* have been dropped and the one between is still live
C18_Witness ==
    /\ num_jobs = 1
    /\ tickets[1] = [acquired |-> 1, dropped |-> 1]
    /\ tickets[2] = [acquired |-> 1, dropped |-> 0]
    /\ tickets[3] = [acquired |-> 1, dropped |-> 1]

\* C19: an execution holds exactly one ticket from before its closure starts
\* until the closure ends; however it ends the ticket has then been released
\* exactly once; a submission that never ran has none; and the counter is 0
\* when no execution is in flight.
C19_TicketAroundExecution ==
    /\ \A j \in Submissions :
         /\ sub[j].exec = "none" => tickets[j] = NoTicket
         /\ sub[j].exec \in {"spawned", "running"}
            => tickets[j] = [acquired |-> 1, dropped |-> 0]
         /\ sub[j].exec \in Outcomes
            => tickets[j] = [acquired |-> 1, dropped |-> 1]
    /\ (\A j \in Submissions : sub[j].exec \notin {"spawned", "running"})
       => num_jobs = 0

\* C19 happens: three executions have ended, by a panic, by an Execution
\* error and by an I/O error, and the counter is back at 0
C19_Witness ==
    /\ {sub[j].exec : j \in 1..NumSubmissions} = {"panic", "Execution", "Io"}
    /\ {sub[j].status : j \in 1..NumSubmissions} = {"JoinError", "Execution", "Io"}
    /\ num_jobs = 0

\* C20: every heartbeat that is built carries credits = MAX_CREDITS less the
\* value of the counter read at that step.
C20_CreditsAreMaxLessActive ==
    [][beat.pc = "load" /\ beat'.pc = "post"
       => beat'.payload[1].credits = [wrapped |-> FALSE, n |-> MAX_CREDITS - num_jobs]]_vars

\* the keys for which a get on cache c returns a value
Retrievable(c) == {key \in Keys : get(c, key).ret # None}

\* C21: whatever gets and puts were made, a get returns a value for at most
\* as many keys as the capacity of the cache.
C21_RetrievableWithinCapacity ==
    Cardinality(Retrievable(module_cache)) <= module_cache.cap

\* C21 happens: more keys were put than the cache holds, and as many as it
\* holds are retrievable
C21_Witness ==
    /\ Cardinality({key \in Keys : latest[key] # None}) > module_cache.cap
    /\ Cardinality(Retrievable(module_cache)) = module_cache.cap
    /\ module_cache.cap = MaxCacheCap

\* the retrievable key of c whose last get or put is the oldest
Oldest(c) ==
    CHOOSE key \in Retrievable(c) :
        \A other \in Retrievable(c) : stamp[key] <= stamp[other]

\* C22: eviction is least-recently-used, a get that finds the key and a put
\* both counting as a use.  A put of a key that is not cached into a full
\* cache removes exactly the key whose last use is the oldest; a put into a
\* cache that is not full, or of a cached key, removes nothing; a get removes
\* nothing.
C22_EvictsLeastRecentlyUsed ==
    [][\A key \in Keys :
        LET before == Retrievable(module_cache)
            after == Retrievable(module_cache')
        IN /\ (\E module \in Arcs : CachePut(key, module))
              => IF key \notin before /\ Cardinality(before) = module_cache.cap
                 THEN after = (before \ {Oldest(module_cache)}) \cup {key}
                 ELSE after = before \cup {key}
           /\ CacheGet(key) => after = before]_vars

\* C22 happens: with a, b cached in that order and a read since, the put of a
\* third key has removed b and kept a
C22_Witness ==
    \E a, b, c \in Keys :
        /\ module_cache.cap = 2
        /\ stamp[a] > stamp[b] /\ stamp[b] > 0 /\ stamp[c] > stamp[a]
        /\ got # None /\ got[1].key = a /\ got[1].ret # None
        /\ Retrievable(module_cache) = {a, c}

\* key is among the cap keys used last
Recent(key) ==
    /\ stamp[key] > 0
    /\ Cardinality({other \in Keys : stamp[other] > stamp[key]}) < module_cache.cap

\* C23: a get of a key returns the Arc put for it last as long as the key
\* has not been evicted, that is while fewer keys than the capacity were used
\* after it; a get of a key never put, or evicted, returns none.  In
\* particular a get right after the put returns the Arc that was put.
C23_GetReturnsLatestPut ==
    /\ \A key \in Keys :
         get(module_cache, key).ret = IF Recent(key) THEN latest[key] ELSE None
    /\ \A key \in Keys : stamp[key] = uses /\ uses > 0
         => get(module_cache, key).ret = latest[key]

\* C23 happens: a key was put twice with different Arcs, a get has returned
\* the second, and a get of another key that was evicted has returned none
C23_Witness ==
    \E a, b \in Keys :
        /\ a # b
        /\ latest[a] = Some(2) /\ get(module_cache, a).ret = Some(2)
        /\ latest[b] # None /\ got = Some([key |-> b, ret |-> None])
        /\ stamp[a] >= 3

----------------------------------------------------------------------------
\* the handler of a /submit_hash request leaves `module_cache.lock().await`
\* with a hash the cache does not hold
HashMiss(j) ==
    /\ sub[j].pc = "lock"
    /\ sub[j].kind = "hash"
    /\ sub'[j].pc # "lock"
    /\ get(module_cache, sub[j].data).ret = None

\* the requests a run has sent are in step with its position and its handlers
ClientSends(c) ==
    /\ client[c].sent \in {<<>>, <<"hash">>, <<"hash", "wasm">>}
    /\ (client[c].sent = <<>>) = (client[c].pc = "idle")
    /\ (Len(client[c].sent) = 2) = (sub[WasmSlot(c)] # IdleSub)
    /\ client[c].pc \in {"wasm", "done"} =>
         /\ (Len(client[c].sent) = 2) = (client[c].hash_status = NOT_FOUND)
         /\ client[c].hash_status = HttpStatus(sub[HashSlot(c)].status)
    /\ (client[c].pc = "done" /\ client[c].hash_status # NOT_FOUND) =>
         client[c].result = IF is_success(client[c].hash_status) THEN "Ok" ELSE "Err"

\* C24: a /submit_hash whose hash is not in the cache is answered
\* ModuleNotFound (404) with nothing executed and active_jobs as it was; the
\* client posts /submit_hash first and /submit_wasm if and only if the answer
\* was 404, any other answer that is no success ending the run with an error.
C24_MissIs404AndOnlyThenUpload ==
    /\ [][\A j \in Submissions : HashMiss(j) =>
            /\ sub'[j].pc = "done"
            /\ sub'[j].status = "ModuleNotFound"
            /\ HttpStatus(sub'[j].status) = 404
            /\ sub'[j].exec = "none"
            /\ num_jobs' = num_jobs
            /\ tickets' = tickets
            /\ module_cache' = module_cache]_vars
    /\ [](\A c \in Clients : ClientSends(c))

C24_Witness ==
    \E c, d \in Clients :
        /\ client[c].pc = "done" /\ client[c].sent = <<"hash", "wasm">>
        /\ client[c].hash_status = 404 /\ sub[HashSlot(c)].exec = "none"
        /\ client[c].result = "Ok"
        /\ client[d].pc = "done" /\ client[d].sent = <<"hash">>
        /\ client[d].hash_status = 422 /\ client[d].result = "Err"
        /\ num_jobs = 0

----------------------------------------------------------------------------
\* the handler of a /submit_wasm request is granted the lock
WasmPut(j) == sub[j].pc = "lock" /\ sub[j].kind = "wasm" /\ sub'[j].pc = "run"

\* the handler of a /submit_hash request leaves `module_cache.lock().await`
\* with a hash the cache holds
HashHit(j) ==
    /\ sub[j].pc = "lock"
    /\ sub[j].kind = "hash"
    /\ sub'[j].pc # "lock"
    /\ get(module_cache, sub[j].data).ret # None

\* the modules that compile among those the runs started so far hold
Compiled == {client[c].wasm_bytes : c \in {d \in Clients : client[d].pc # "idle"}}
                \ {<<>>, <<0>>}

\* the run has its answer to /submit_hash
HashAnswered(c) == client[c].pc \in {"wasm", "done"}

\* run d was over before run c began, with the same module
EarlierSame(c, d) ==
    d \in client[c].after /\ client[d].wasm_bytes = client[c].wasm_bytes

\* C25: a /submit_wasm that compiled stores the module under the hash the
\* client computes, whatever its execution does; the hash stays in the cache
\* until a put of another hash into the full cache evicts it, and every
\* /submit_hash with it meanwhile finds the module; so of the runs that send the
\* same bytes one after another to a worker that evicts nothing, only the first
\* posts /submit_wasm.
C25_UploadOnceThenHits ==
    /\ [][\A j \in Submissions :
            /\ WasmPut(j) => get(module_cache', sub[j].data).ret = Some(j)
            /\ HashHit(j) => sub'[j].pc = "run" /\ sub'[j].exec = "spawned"
            /\ (sub[j].pc = "run" /\ sub'[j].pc # "run") =>
                  Retrievable(module_cache') = Retrievable(module_cache)]_vars
    /\ [][\A key \in Retrievable(module_cache) \ Retrievable(module_cache') :
            /\ Len(module_cache.entries) = module_cache.cap
            /\ module_cache.entries[Len(module_cache.entries)].key = key
            /\ \E j \in Submissions :
                 WasmPut(j) /\ sub[j].data \notin Retrievable(module_cache)]_vars
    /\ [](\A c \in Clients :
            (/\ HashAnswered(c)
             /\ client[c].wasm_bytes \in Compiled
             /\ Cardinality(Compiled) <= module_cache.cap) =>
                ((\E d \in Clients : EarlierSame(c, d)) => client[c].sent = <<"hash">>))

C25_Witness ==
    \E c, d, e \in Clients :
        /\ client[d].pc = "done" /\ client[d].sent = <<"hash", "wasm">>
        /\ sub[WasmSlot(d)].status = "Execution"
        /\ EarlierSame(c, d)
        /\ client[c].pc = "done" /\ client[c].sent = <<"hash">> /\ client[c].result = "Ok"
        /\ c \in client[e].after
        /\ client[e].pc = "done" /\ client[e].sent = <<"hash">>
        /\ client[e].wasm_bytes = client[c].wasm_bytes

----------------------------------------------------------------------------
\* C26: a send that finds the receiver gone is not counted in assigned and
\* the drain goes on to the next waiter; every waiter counted in assigned has
\* its call return 201 with the endpoint, so no call that returns
\* RequestTimeout was counted, also when its timer fires during the drain.
C26_CountedIffServed ==
    /\ [][\A h \in Heartbeats :
            (/\ hb[h].pc = "send"
             /\ hb'[h].pc # "send"
             /\ ~chan[hb[h].job[1].responder].rx_alive)
            => /\ hb'[h].assigned = hb[h].assigned
               /\ hb'[h].pc = "dequeue"
               /\ handed' = handed]_vars
    /\ [](\A r \in Requests :
            Enqueued(r) /\ req[r].pc = "done" /\ handed[req[r].job_id] > 0
            => /\ req[r].status = CREATED
               /\ Some(req[r].worker_endpoint) = chan[req[r].job_id].value)

----------------------------------------------------------------------------
\* the credits of all records of a registry
RECURSIVE SumCredits(_, _)
SumCredits(m, ids) ==
    IF ids = {} THEN 0
    ELSE LET id == CHOOSE x \in ids : TRUE
         IN m[id].credits + SumCredits(m, ids \ {id})

TotalCredits(m) == SumCredits(m, DOMAIN m)

\* call r was answered by a direct pick
Direct(r) ==
    req[r].pc = "done" /\ req[r].status = CREATED /\ req[r].job_id = DirectJobId(r)

\* call r takes its pick_and_decrement step
Picks(r) == req[r].pc = "pick" /\ req'[r].pc # "pick"

\* C27: the pick and the decrement are one step on the registry: a call is
\* dispatched directly iff some record has a credit, and takes exactly one;
\* so of two calls that stand before their pick when the registry holds one
\* credit in all, the one that picks first takes it and leaves none for the
\* other, which goes on to enqueue.
C27_PickAndDecrementAtomic ==
    [][\A r \in Requests : Picks(r) =>
          /\ Direct(r)' <=> TotalCredits(registry) > 0
          /\ Direct(r)' => TotalCredits(registry') = TotalCredits(registry) - 1
          /\ ~Direct(r)' => registry' = registry /\ req'[r].pc = "enqueue"
          /\ TotalCredits(registry) = 1 =>
                \A r2 \in Requests \ {r} : req[r2].pc = "pick" =>
                    /\ req'[r2].pc = "pick"
                    /\ \A order \in IterOrders(registry') :
                          pick_and_decrement(registry', order).ret = None]_vars

\* C27 happens: two workers hold one credit between them, the call that
\* arrived second has taken it while the first still stands before its pick
C27_Witness ==
    /\ Direct(2)
    /\ req[1].pc = "pick"
    /\ \A h \in Heartbeats : hb[h].pc = "idle"
    /\ Cardinality(DOMAIN registry) = MaxFleetWorkers
    /\ TotalCredits(registry) = 0

----------------------------------------------------------------------------
Min(a, b) == IF a <= b THEN a ELSE b

RECURSIVE SumHanded(_)
SumHanded(js) ==
    IF js = {} THEN 0
    ELSE LET j == CHOOSE x \in js : TRUE
         IN handed[j] + SumHanded(js \ {j})

\* the endpoints given out so far: direct picks and sends that a receiver took
Dispatches == Cardinality({r \in Requests : Direct(r)}) + SumHanded(JobIds)

\* no handler is between its first and its last step
Quiescent ==
    /\ \A r \in Requests : req[r].pc \in {"idle", "done"}
    /\ \A h \in Heartbeats : hb[h].pc \in {"idle", "done"}

\* a heartbeat that runs alone hands the endpoint to as many waiters as it has
\* credits or as were there to take it, whichever is less, counts each of
\* them, and leaves the rest of its credits in the registry
SoloDrain ==
    [][\A h \in Heartbeats :
         /\ (hb[h].pc = "send" /\ hb'[h].pc # "send")
            => hb'[h].assigned - hb[h].assigned
                 = SumHanded(JobIds)' - SumHanded(JobIds)
         /\ (hb[h].pc = "final" /\ hb'[h].pc = "done")
            => /\ hb[h].assigned = Min(hb[h].credits, tally.live[h])
               /\ registry'[hb[h].worker_id].credits
                    = hb[h].credits - Min(hb[h].credits, tally.live[h])]_vars

LatestSeq(w) == applied[w][Len(applied[w])]

\* C29: once a heartbeat of a registered worker was applied, the record holds
\* the seq of the heartbeat applied last and the time it was applied as
\* last_seen (its credits are checked where the drain is: the heartbeat's
\* credits less the dispatches since)
C29_HeartbeatSetsSeqAndLastSeen ==
    \A w \in DOMAIN registry :
        applied[w] # <<>> =>
            /\ registry[w].seq = LatestSeq(w)
            /\ registry[w].last_seen = heard[w]

\* worker w has a record and no heartbeat of it was applied for longer than
\* 3 x HEARTBEAT_INTERVAL
Silent(w) == w \in DOMAIN registry /\ now - heard[w] > 3

\* C30: a record that receives no heartbeat for longer than
\* 3 x HEARTBEAT_INTERVAL is removed from the registry in the end
C30_SilentWorkerEvicted ==
    \A w \in WorkerIds : Silent(w) ~> (w \notin DOMAIN registry)

\* C31: the module cache lock is released before the module executes: no
\* handler holds it while its execution is spawned or running, so a handler
\* waiting for the lock is never kept waiting by an execution.
C31_LockReleasedBeforeExecution ==
    \A j \in Submissions :
        sub[j].exec \in {"spawned", "running"} =>
            /\ cache_lock # j
            /\ \A k \in Submissions : sub[k].pc = "lock" => cache_lock = 0

C35_RejectedLeavesStateUnchanged ==
    /\ [](\A key \in Retrievable(module_cache) : key[2] # <<>> /\ Compiles(key[2]))
    /\ [](\A j \in Submissions :
            sub[j].status \in {"Validation", "Compile"}
            => tickets[j] = NoTicket /\ sub[j].exec = "none")
    /\ [][\A j \in Submissions :
            /\ sub[j].pc = "idle" /\ sub'[j].pc = "done"
               => /\ sub'[j].status \in {"Validation", "Compile"}
                  /\ HttpStatus(sub'[j].status) = BAD_REQUEST
                  /\ module_cache' = module_cache
                  /\ tickets' = tickets
                  /\ num_jobs' = num_jobs
            /\ sub[j].pc = "idle" /\ sub'[j].pc = "lock" /\ sub'[j].kind = "wasm"
               => sub'[j].data[2] # <<>> /\ Compiles(sub'[j].data[2])
            /\ sub[j].pc = "lock" /\ sub[j].kind = "wasm" /\ sub'[j].pc = "run"
               => /\ sub[j].data \in Retrievable(module_cache')
                  /\ sub[j].exec = "none" /\ sub'[j].exec = "spawned"]_vars

\* C35 happens: one submission was rejected as empty, one as not compiling,
\* and the module of a third is in the cache while its run is under way
C35_Witness ==
    /\ sub[1].status = "Validation"
    /\ sub[2].status = "Compile"
    /\ sub[3].pc = "run"
    /\ Retrievable(module_cache) = {hash_wasm_module(<<1>>)}
    /\ num_jobs = 1
    /\ tickets[1] = NoTicket /\ tickets[2] = NoTicket

\* C36: no /request_worker call is answered Internal: the channel of a
\* call that waits is open or holds a value, and a sender is gone only once
\* a drain that dequeued the job has made its send, or the call of the job
\* has itself timed out and removed it or was turned away with QueueFull.
C36_NoInternal ==
    /\ \A r \in Requests : req[r].status # Internal
    /\ \A r \in Requests :
         req[r].pc = "wait"
         => chan[req[r].job_id].tx_alive \/ chan[req[r].job_id].value # None
    /\ \A j \in JobIds :
         chan[j] # NoChannel /\ ~chan[j].tx_alive
         => \/ drains[j] > 0 /\ Holders(j) = {}
            \/ \E r \in Requests :
                  /\ req[r].job_id = j /\ req[r].pc = "done"
                  /\ req[r].status \in {RequestTimeout, QueueFull}

\* C36 happens: one call timed out and removed its own job, whose sender
\* went with it unused, and another was handed an endpoint by a drain
C36_Witness ==
    \E r, q \in Requests :
        /\ req[r].pc = "done" /\ req[r].status = RequestTimeout
        /\ drains[req[r].job_id] = 0
        /\ ~chan[req[r].job_id].tx_alive
        /\ req[q].pc = "done" /\ req[q].status = CREATED
        /\ req[q].job_id \in JobIds /\ handed[req[q].job_id] = 1

\* C37: when a heartbeat is built the counter of active jobs is at most
\* MAX_CREDITS, so the subtraction does not underflow: the loop is never
\* ended by it and every payload carries credits in 0..MAX_CREDITS.
C37_ActiveJobsWithinMaxCredits ==
    /\ beat.pc = "load" => num_jobs <= MAX_CREDITS
    /\ beat.pc # "dead"
    /\ beat.payload # None
       => /\ ~beat.payload[1].credits.wrapped
          /\ beat.payload[1].credits.n \in 0..MAX_CREDITS

\* C38: an endpoint is handed out only for a worker that is in the registry
\* at that moment: the worker of a drain whose send is taken is registered
\* (no unregister call for it has returned), and a direct pick returns the
\* endpoint of a record of the registry.
C38_HandedEndpointIsRegistered ==
    [][/\ \A h \in Heartbeats :
            hb[h].pc = "send" /\ hb'[h] # hb[h] /\ handed' # handed
            => hb[h].worker_id \in DOMAIN registry /\ hb[h].worker_id \notin removed
       /\ \A r \in Requests :
            req[r].pc = "pick" /\ req'[r].pc = "done"
            => \E w \in DOMAIN registry :
                  req'[r].worker_endpoint = registry[w].endpoint]_vars

\* C39: a job enters the pending queue only while some worker is
\* registered.
C39_EnqueuedOnlyWithWorkers ==
    [][Len(queue') > Len(queue) => DOMAIN registry # {}]_vars

\* the first sequence is the beginning of the second
IsPrefix(a, b) == Len(a) <= Len(b) /\ \A i \in 1..Len(a) : a[i] = b[i]

\* the steps of a handler that has arrived
TaskStep(t) ==
    \/ LockRegistry(t) \/ LockQueue(t) \/ RegistryMethod(t) \/ QueueMethod(t)
    \/ TaskSend(t) \/ TaskReceive(t) \/ TaskElapsed(t)

\* C32: no handler holds the guard of the registry and the guard of the queue
\* at once; a handler that sends on a rendezvous holds neither; a heartbeat
\* handler takes the locks in the order registry, queue, registry; whoever
\* holds a guard is inside the method that took it and can return; and so no
\* handler is ever stuck: each handler under way can step, or waits for a
\* lock whose holder can.
C32_LockDiscipline ==
    /\ \A t \in Tasks : ~(registry_lock = t /\ queue_lock = t)
    /\ \A t \in Tasks : task[t].pc = "send" => queue_lock # t /\ registry_lock # t
    /\ \A t \in Tasks :
         task[t].kind = "heartbeat"
         => IsPrefix(task[t].acq, <<"registry", "queue", "registry">>)
    /\ \A t \in Tasks :
         /\ registry_lock = t => task[t].pc \in RegistrySteps /\ ENABLED RegistryMethod(t)
         /\ queue_lock = t => task[t].pc \in QueueSteps /\ ENABLED QueueMethod(t)
    /\ \A t \in Tasks :
         task[t].pc \notin {"idle", "done"}
         => \/ task[t].pc \in RegistrySteps /\ registry_lock \in Tasks \ {t}
            \/ task[t].pc \in QueueSteps /\ queue_lock \in Tasks \ {t}
            \/ ENABLED TaskStep(t)

\* C32 happens: a heartbeat handler is about to send on the rendezvous of a
\* job it dequeued while the handler that timed out waiting for that job is
\* inside remove_job_by_id, the guard of the queue in hand
C32_Witness ==
    \E t, u \in Tasks :
        /\ task[t].kind = "heartbeat" /\ task[t].pc = "send"
        /\ task[t].acq = <<"registry", "queue">>
        /\ u # t /\ queue_lock = u /\ task[u].pc = "remove_job_by_id"
        /\ task[t].job[1].job_id = task[u].job_id

====
